---------------------------- MODULE Spec2Model ----------------------------
(***************************************************************************)
(* CloudFormation stack lifecycle orchestrator of cf-utils                 *)
(* (upsertStack, createStack, updateStack, applyChangeSet, deleteStack,    *)
(* pollStack, pollChangeSet), modelled as one asynchronous call whose      *)
(* steps are the resumptions of its awaits.  Each action consumes the      *)
(* answer to the pending request (provider response, prompt answer, timer) *)
(* and runs the code up to the next request or to the settling of the      *)
(* returned promise.                                                       *)
(*                                                                         *)
(* Strings the code inspects (statuses, error messages, output keys,       *)
(* template text) are sequences of tokens, so that suffix, substring and   *)
(* regular-expression tests are computed rather than assumed.              *)
(***************************************************************************)
EXTENDS Integers, Sequences, FiniteSets, TLC

(***************************************************************************)
(* Bounds                                                                  *)
(***************************************************************************)
\* Timer waits one call may go through before the provider must stop
\* answering with a status the code keeps polling on.
MaxWaits == 2
\* Invocations of the change-set path whose generated names are compared.
MaxRuns == 2
\* Latest clock reading, in milliseconds since the first one.
MaxNow == 3000
\* Objects in the bucket emptyBucket is called on, and versions per object.
MaxObjects == 3
MaxVersions == 2
\* Keys one ListObjectsV2 response holds (the provider's is 1000).
MaxKeysPerPage == 2
\* Versions a policy has when updateIoTPolicies is called.
MaxPolicyVersions == 3
\* Log groups that match the filter of deleteLogGroups, and log groups one
\* DescribeLogGroups response holds (the provider's is 50).
MaxLogGroups == 4
MaxGroupsPerPage == 2

(***************************************************************************)
(* Generic helpers on token sequences                                      *)
(***************************************************************************)
Range(s) == { s[i] : i \in 1..Len(s) }

\* s.indexOf(phrase) >= 0, at token granularity
Contains(s, phrase) == phrase \in Range(s)

\* /.*tok$/.test(s)
EndsWith(s, tok) == Len(s) > 0 /\ s[Len(s)] = tok

None == <<>>

(***************************************************************************)
(* Provider vocabulary (inputs of the code)                                *)
(***************************************************************************)
StackNames == { "S1", "S2" }

\* Every StackStatus the provider can report, split at "_".
StackStatuses ==
  { <<"CREATE", "IN", "PROGRESS">>, <<"CREATE", "FAILED">>, <<"CREATE", "COMPLETE">>,
    <<"ROLLBACK", "IN", "PROGRESS">>, <<"ROLLBACK", "FAILED">>, <<"ROLLBACK", "COMPLETE">>,
    <<"DELETE", "IN", "PROGRESS">>, <<"DELETE", "FAILED">>, <<"DELETE", "COMPLETE">>,
    <<"UPDATE", "IN", "PROGRESS">>, <<"UPDATE", "COMPLETE", "CLEANUP", "IN", "PROGRESS">>,
    <<"UPDATE", "COMPLETE">>, <<"UPDATE", "FAILED">>,
    <<"UPDATE", "ROLLBACK", "IN", "PROGRESS">>, <<"UPDATE", "ROLLBACK", "FAILED">>,
    <<"UPDATE", "ROLLBACK", "COMPLETE", "CLEANUP", "IN", "PROGRESS">>,
    <<"UPDATE", "ROLLBACK", "COMPLETE">>, <<"REVIEW", "IN", "PROGRESS">>,
    <<"IMPORT", "IN", "PROGRESS">>, <<"IMPORT", "COMPLETE">>,
    <<"IMPORT", "ROLLBACK", "IN", "PROGRESS">>, <<"IMPORT", "ROLLBACK", "FAILED">>,
    <<"IMPORT", "ROLLBACK", "COMPLETE">> }

\* Every change-set Status the provider can report, plus UPDATE_COMPLETE,
\* which the code's switch names.
ChangeSetStatuses ==
  { <<"CREATE", "PENDING">>, <<"CREATE", "IN", "PROGRESS">>, <<"CREATE", "COMPLETE">>,
    <<"UPDATE", "COMPLETE">>,
    <<"DELETE", "PENDING">>, <<"DELETE", "IN", "PROGRESS">>, <<"DELETE", "COMPLETE">>,
    <<"DELETE", "FAILED">>, <<"FAILED">> }

\* Error messages, as phrases.
ErrNotFound == <<"Stack with id", "does not exist">>
ErrNoUpdates == <<"ValidationError:", "No updates are to be performed", ".">>
ErrOther == <<"some other error">>

\* StatusReason of a FAILED change set; None is an absent reason.
ReasonNoUpdates == <<"No updates are to be performed", ".">>
ReasonNoChanges == <<"The submitted information", "didn't contain changes", ".">>
ReasonOther == <<"Template error">>
StatusReasons == { ReasonNoUpdates, ReasonNoChanges, ReasonOther }

\* Stack outputs: sequences of [OutputKey, OutputValue]; OutputKey split at
\* word boundaries.  "undefined" is a described stack without Outputs.
Out(k, v) == [OutputKey |-> k, OutputValue |-> v]
OutputLists ==
  { <<>>,
    <<Out(<<"Property1">>, "v1")>>,
    <<Out(<<"Data", "Bucket">>, "b1")>>,
    <<Out(<<"Bucket", "Name">>, "b0"), Out(<<"Data", "Bucket">>, "b1"),
      Out(<<"Logs", "Bucket">>, "b2")>>,
    <<Out(<<"data", "bucket">>, "b3"), Out(<<"Bucket">>, "b2")>> }

\* Template text, as tokens: T = Transform, Q = a double quote, W = one
\* whitespace character, C = a colon, A = AWS::Serverless, X = other text.
Templates ==
  { <<"X">>,
    <<"X", "T", "C", "W", "A", "X">>,
    <<"Q", "T", "Q", "W", "C", "W", "W", "Q", "A", "X">>,
    <<"T", "C", "W", "X">>,
    <<"T", "Q", "Q", "C", "A">> }


\* upsertStack's script argument: a local path (present or missing, with its
\* text) or a URL starting with https://s3.
Scripts ==
  { [kind |-> "local", exists |-> TRUE, body |-> t] : t \in Templates }
    \cup { [kind |-> "local", exists |-> FALSE, body |-> None],
           [kind |-> "s3url", exists |-> FALSE, body |-> None] }

\* upsertStack's options argument: undefined, a boolean (legacy 'review'),
\* or an object whose properties may be absent.
Tri == { "absent", "true", "false" }
OptionValues ==
  { [form |-> "undefined", bool |-> "false", review |-> "absent",
     containsTransforms |-> "absent", s3Bucket |-> "absent"] }
    \cup { [form |-> "boolean", bool |-> b, review |-> "absent",
            containsTransforms |-> "absent", s3Bucket |-> "absent"] : b \in { "true", "false" } }
    \cup { [form |-> "object", bool |-> "false", review |-> r,
            containsTransforms |-> c, s3Bucket |-> b] :
              r \in Tri, c \in Tri, b \in { "absent", "set" } }

NoOptions == [form |-> "object", bool |-> "false", review |-> "absent",
              containsTransforms |-> "absent", s3Bucket |-> "absent"]
NoScript == [kind |-> "local", exists |-> FALSE, body |-> None]

\* A change-set name the caller of createChangeSet / deleteChangeSet /
\* pollChangeSet passes in.
CallerChangeSetName == <<"my-change-set">>

\* invocations of the change-set path, and the steps the clock makes
Runs == 1..MaxRuns
TickSteps == { 250, 1000 }

Functions ==
  { "upsertStack", "createStack", "updateStack", "deleteStack", "pollStack",
    "pollChangeSet", "createChangeSet", "deleteChangeSet" }

Calls ==
  { [fn |-> "upsertStack", name |-> n, script |-> s, options |-> o] :
      n \in StackNames, s \in Scripts, o \in OptionValues }
    \cup { [fn |-> f, name |-> n, script |-> NoScript, options |-> NoOptions] :
             f \in Functions \ { "upsertStack" }, n \in StackNames }

(***************************************************************************)
(* Pure parts of the code                                                  *)
(***************************************************************************)
\* Positions reachable by consuming one token tok from a position of P.
Lit(s, P, tok) == { p + 1 : p \in { q \in P : q <= Len(s) /\ s[q] = tok } }
\* tok?
Opt(s, P, tok) == P \cup Lit(s, P, tok)
\* tok*
RECURSIVE Star(_, _, _)
Star(s, P, tok) ==
  LET N == Opt(s, P, tok) IN IF N = P THEN P ELSE Star(s, N, tok)

\* (mutant) the pattern without its optional quotes: /Transform\s*:\s*AWS::Serverless/
TransformRegexNoQuotes(body) ==
  LET p0 == Lit(body, 1..Len(body), "T")
      p2 == Star(body, p0, "W")
      p3 == Lit(body, p2, "C")
      p4 == Star(body, p3, "W")
      p6 == Lit(body, p4, "A")
  IN  p6 # {}

\* /Transform\"?\s*:\s*\"?AWS::Serverless/.test(body)
TransformRegex(body) ==
  LET p0 == Lit(body, 1..Len(body), "T")
      p1 == Opt(body, p0, "Q")
      p2 == Star(body, p1, "W")
      p3 == Lit(body, p2, "C")
      p4 == Star(body, p3, "W")
      p5 == Opt(body, p4, "Q")
      p6 == Lit(body, p5, "A")
  IN  p6 # {}

\* fs.readFileSync(script) succeeds
Readable(scr) == scr.kind = "local" /\ scr.exists

\* options normalisation at the head of upsertStack
NormalizeOptions(o) ==
  IF o.form = "boolean"
    THEN [NoOptions EXCEPT !.review = o.bool]
    ELSE IF o.form = "undefined" THEN NoOptions ELSE o

\* let containsTransforms = options.hasOwnProperty(...) ? ... : regex
\* (defined when the override is present or the script is readable)
containsTransformsOf(o, scr) ==
  IF o.containsTransforms # "absent"
    THEN o.containsTransforms = "true"
    ELSE TransformRegex(scr.body)

\* (mutant) the test without the end anchor: /.*Bucket/
IsBucketKeyUnanchored(key) == Contains(key, "Bucket")
\* /.*Bucket$/.test(OutputKey)
IsBucketKey(key) == EndsWith(key, "Bucket")

\* the switch of pollStack: "resolve", "reject", or "wait"
\* (mutant) the in-progress status of a creation taken for its completion
pollStackSwitchEager(status) ==
  CASE status = <<"CREATE", "COMPLETE">> -> "resolve"
    [] status = <<"UPDATE", "COMPLETE">> -> "resolve"
    [] status = <<"ROLLBACK", "COMPLETE">> -> "reject"
    [] status = <<"CREATE", "FAILED">> -> "reject"
    [] status = <<"UPDATE", "FAILED">> -> "reject"
    [] status = <<"DELETE", "FAILED">> -> "reject"
    [] status = <<"UPDATE", "ROLLBACK", "COMPLETE">> -> "reject"
    [] OTHER -> IF EndsWith(status, "PROGRESS") /\ status[1] = "CREATE"
                  THEN "resolve" ELSE "wait"
pollStackSwitch(status) ==
  CASE status = <<"CREATE", "COMPLETE">> -> "resolve"
    [] status = <<"UPDATE", "COMPLETE">> -> "resolve"
    [] status = <<"ROLLBACK", "COMPLETE">> -> "reject"
    [] status = <<"CREATE", "FAILED">> -> "reject"
    [] status = <<"UPDATE", "FAILED">> -> "reject"
    [] status = <<"DELETE", "FAILED">> -> "reject"
    [] status = <<"UPDATE", "ROLLBACK", "COMPLETE">> -> "reject"
    [] OTHER -> "wait"

\* (mutant) only the first of the two phrasings of an empty change set tested
pollChangeSetSwitchOnePhrase(status, reason) ==
  CASE status = <<"CREATE", "COMPLETE">> -> "resolve"
    [] status = <<"UPDATE", "COMPLETE">> -> "resolve"
    [] status = <<"DELETE", "COMPLETE">> -> "resolve"
    [] status = <<"FAILED">> ->
         IF reason = None THEN "typeerror"
         ELSE IF Contains(reason, "No updates are to be performed")
                THEN "noop" ELSE "reject"
    [] OTHER -> "wait"
\* (mutant) a break after the logging of CREATE_COMPLETE instead of the
\* fall-through to 'return cs'
pollChangeSetSwitchBreak(status, reason) ==
  CASE status = <<"UPDATE", "COMPLETE">> -> "resolve"
    [] status = <<"DELETE", "COMPLETE">> -> "resolve"
    [] status = <<"FAILED">> ->
         IF reason = None THEN "typeerror"
         ELSE IF Contains(reason, "No updates are to be performed")
                   \/ Contains(reason, "didn't contain changes")
                THEN "noop" ELSE "reject"
    [] OTHER -> "wait"
\* the switch of pollChangeSet: "resolve" (with cs), "noop" (resolve with
\* nothing), "reject", "typeerror" (StatusReason absent), or "wait"
pollChangeSetSwitch(status, reason) ==
  CASE status = <<"CREATE", "COMPLETE">> -> "resolve"
    [] status = <<"UPDATE", "COMPLETE">> -> "resolve"
    [] status = <<"DELETE", "COMPLETE">> -> "resolve"
    [] status = <<"FAILED">> ->
         IF reason = None THEN "typeerror"
         ELSE IF Contains(reason, "No updates are to be performed")
                   \/ Contains(reason, "didn't contain changes")
                THEN "noop" ELSE "reject"
    [] OTHER -> "wait"


\* Poll changeset timeout in milliseconds
POLL_TIMEOUT == 5000

(***************************************************************************)
(* Requests, responses, results                                            *)
(***************************************************************************)
Req(op, sn) ==
  [op |-> op, StackName |-> sn, ChangeSetName |-> None, ChangeSetType |-> "",
   DisableRollback |-> "", Template |-> "", Bucket |-> "", Delay |-> 0]

\* 'cf-utils-' + params.StackName + '-preview'
PreviewName(sn) == <<"cf-utils-", sn, "-preview">>
\* (Date.now() / 1000 | 0) for a clock reading in milliseconds: the fraction is
\* cut off.  Readings stay below 2^31 seconds, where | 0 does not wrap.
EpochSeconds(ms) == ms \div 1000
\* 'cf-utils-cloudformation-upsert-stack-' + (Date.now() / 1000 | 0), at clock
\* reading ms
generateChangeSetNameAt(ms) ==
  <<"cf-utils-cloudformation-upsert-stack-", ToString(EpochSeconds(ms))>>

\* params.TemplateURL / params.TemplateBody
TemplateField(scr) == IF scr.kind = "s3url" THEN "TemplateURL" ELSE "TemplateBody"

DescribeStacksReq(sn) == Req("DescribeStacks", sn)
\* (mutant) params.DisableRollback left unset
CreateStackReqRollbackEnabled(sn, tpl) == [Req("CreateStack", sn) EXCEPT !.Template = tpl]
CreateStackReq(sn, tpl) ==
  [Req("CreateStack", sn) EXCEPT !.DisableRollback = "true", !.Template = tpl]
UpdateStackReq(sn, tpl) == [Req("UpdateStack", sn) EXCEPT !.Template = tpl]
CreateChangeSetReq(sn, tpl, csn, type) ==
  [Req("CreateChangeSet", sn) EXCEPT
     !.Template = tpl, !.ChangeSetName = csn, !.ChangeSetType = type]
CsReq(op, sn, csn) == [Req(op, sn) EXCEPT !.ChangeSetName = csn]
\* setTimeout(function () { resolve(poll...(params)) }, POLL_TIMEOUT)
TimerReq(sn) == [Req("setTimeout", sn) EXCEPT !.Delay = POLL_TIMEOUT]

StackOk(st) == [ok |-> TRUE, status |-> st, msg |-> None]
StackErr(m) == [ok |-> FALSE, status |-> None, msg |-> m]
DescribeStacksResponses ==
  { StackOk(st) : st \in StackStatuses } \cup { StackErr(ErrNotFound), StackErr(ErrOther) }

CsOk(st, rs) == [ok |-> TRUE, status |-> st, reason |-> rs, msg |-> None]
CsErr(m) == [ok |-> FALSE, status |-> None, reason |-> None, msg |-> m]
DescribeChangeSetResponses ==
  { CsOk(st, None) : st \in ChangeSetStatuses }
    \cup { CsOk(<<"FAILED">>, rs) : rs \in StatusReasons }
    \cup { CsErr(ErrNotFound), CsErr(ErrOther) }

\* Answers to the DescribeStacks that upsertStack and deleteStack issue first;
\* neither reads the status of the stack it finds.
FirstDescribeResponses ==
  { StackOk(<<"CREATE", "COMPLETE">>), StackErr(ErrNotFound), StackErr(ErrOther) }

NoStack == [ok |-> FALSE, status |-> None, msg |-> None]
NoCs == [ok |-> FALSE, status |-> None, reason |-> None, msg |-> None]

Pending == [state |-> "pending", kind |-> "", status |-> None, msg |-> None]
Undefined == [state |-> "resolved", kind |-> "undefined", status |-> None, msg |-> None]
StackData(st) == [state |-> "resolved", kind |-> "stack", status |-> st, msg |-> None]
CsData(st) == [state |-> "resolved", kind |-> "changeset", status |-> st, msg |-> None]
Rejected(m) == [state |-> "rejected", kind |-> "error", status |-> None, msg |-> m]

MsgStackFailed == <<"Stack operation failed">>
MsgChangeSetFailed == <<"Changeset creation failed">>
MsgReviewerRejected == <<"Reviewer rejected stack update">>
MsgScriptMissing == <<"script", " does not exist!">>
MsgENOENT == <<"ENOENT: no such file or directory">>
MsgTypeError == <<"TypeError: Cannot read properties of undefined">>
MsgPromptFailed == <<"prompt failed">>

(***************************************************************************)
(* S3 as emptyBucket sees it                                               *)
(***************************************************************************)
Max(S) == CHOOSE x \in S : \A y \in S : y <= x
Min(S) == CHOOSE x \in S : \A y \in S : x <= y

S3Commands ==
  { "GetBucketVersioning", "ListObjectsV2", "ListObjectVersions", "DeleteObjects" }

\* A bucket: whether it exists, the Status GetBucketVersioning reports, and
\* its objects, numbered in key order, each with the same number of versions,
\* numbered oldest first.  A bucket whose versioning is not enabled holds
\* one version of each object.
Buckets ==
  { [exists |-> TRUE, Status |-> "Enabled", objects |-> n, versions |-> v,
     prefixed |-> FALSE] : n \in 0..MaxObjects, v \in 1..MaxVersions }
    \cup { [exists |-> TRUE, Status |-> "Enabled", objects |-> n, versions |-> v,
            prefixed |-> TRUE] : n \in 2..MaxObjects, v \in 1..MaxVersions }
    \cup { [exists |-> TRUE, Status |-> s, objects |-> n, versions |-> 1,
            prefixed |-> FALSE] :
              s \in { "Suspended", "absent" }, n \in 0..MaxObjects }
    \cup { [exists |-> FALSE, Status |-> "absent", objects |-> 0, versions |-> 1,
            prefixed |-> FALSE] }
NoBucket ==
  [exists |-> FALSE, Status |-> "absent", objects |-> 0, versions |-> 1,
   prefixed |-> FALSE]
ObjectVersions(b) == (1..b.objects) \X (1..b.versions)

\* err.toString() of the errors S3 answers with
ErrNoSuchBucket == <<"NoSuchBucket: ", "The specified bucket does not exist">>
ErrAccessDenied == <<"AccessDenied: ", "Access Denied">>
\* how a request to bucket b may be answered: None is success
S3Answers(b) == IF b.exists THEN { None, ErrAccessDenied } ELSE { ErrNoSuchBucket }

\* ListObjectsV2 after continuation token tok: the next keys that have a
\* version left, one page of them, and a token when there are more
ListObjectsV2Data(rem, tok) ==
  LET present == { k \in { o[1] : o \in rem } : k > tok }
      contents ==
        { k \in present : Cardinality({ j \in present : j < k }) < MaxKeysPerPage }
  IN  [Contents |-> contents,
       NextContinuationToken |-> IF present \ contents # {} THEN Max(contents) ELSE 0]
NoPage == [Contents |-> {}, NextContinuationToken |-> 0]

\* MaxKeys of listObjectVersions
MaxKeys == 1
\* the keys that start with key k, the Prefix of listObjectVersions
WithPrefix(b, k) == IF b.prefixed /\ k = 1 THEN { 1, 2 } ELSE { k }
\* ListObjectVersions with Prefix k and MaxKeys 1 after the markers km, vm:
\* of the versions of the keys starting with k, in key order and newest
\* first, the first one after the markers, and markers when there are more
ListObjectVersionsData(rem, b, k, km, vm) ==
  LET after == { o \in rem : /\ o[1] \in WithPrefix(b, k)
                              /\ (km = 0 \/ o[1] > km \/ (o[1] = km /\ o[2] < vm)) }
  IN  IF after = {}
        THEN [Versions |-> {}, NextKeyMarker |-> 0, NextVersionIdMarker |-> 0]
        ELSE LET j == Min({ o[1] : o \in after })
                 v == Max({ o[2] : o \in { p \in after : p[1] = j } })
             IN  [Versions |-> { <<j, v>> },
                  NextKeyMarker |-> IF Cardinality(after) > MaxKeys THEN j ELSE 0,
                  NextVersionIdMarker |-> IF Cardinality(after) > MaxKeys THEN v ELSE 0]
NoVersions == [Versions |-> {}, NextKeyMarker |-> 0, NextVersionIdMarker |-> 0]

\* DeleteObjects of objs: a named version goes; a key without VersionId goes
\* with what the bucket holds of it
DeleteObjectsEffect(rem, objs) ==
  { o \in rem : o \notin objs /\ <<o[1], 0>> \notin objs }

EbPending == [state |-> "pending", err |-> None]
EbResolved == [state |-> "resolved", err |-> None]
EbRejected(err) == [state |-> "rejected", err |-> err]
(***************************************************************************)
(* IoT policies and log groups                                             *)
(***************************************************************************)
\* no promise yet
NoChains == [k \in {} |-> None]

\* Output keys, split where 'IoTPolicy' and 'Template' begin
KeyFirstTemplate == <<"First", "IoTPolicy", "Template">>
KeyFirst == <<"First", "IoTPolicy">>
KeySecondTemplate == <<"Second", "IoTPolicy", "Template">>
KeySecond == <<"Second", "IoTPolicy">>
KeyUnrelated == <<"Unrelated", "Output", "Resource">>
\* the stack outputs updateIoTPolicies is called with; every value is the name
\* of its key
StackOutputs ==
  { {},
    { KeyUnrelated, KeyFirst },
    { KeyFirstTemplate, KeyFirst, KeyUnrelated },
    { KeyFirstTemplate, KeyFirst, KeySecondTemplate, KeySecond, KeyUnrelated } }

\* outputKey.includes('IoTPolicyTemplate')
IncludesIoTPolicyTemplate(key) ==
  \E i \in 1..(Len(key) - 1) : key[i] = "IoTPolicy" /\ key[i + 1] = "Template"
\* outputKey.replace('Template', ''): the first occurrence goes
ReplaceTemplate(key) ==
  IF "Template" \in Range(key)
    THEN LET i == Min({ j \in 1..Len(key) : key[j] = "Template" })
         IN  SubSeq(key, 1, i - 1) \o SubSeq(key, i + 1, Len(key))
    ELSE key

ErrIoT == <<"InternalFailureException: ", "internal failure">>
\* how an IoT request may be answered: None is success
IotAnswers == { None, ErrIoT }

IotPending == [state |-> "pending", value |-> NoChains, err |-> None]

CwCommands == { "DescribeLogGroups", "DeleteLogGroup" }
ErrCw == <<"ServiceUnavailableException: ", "service unavailable">>
CwAnswers == { None, ErrCw }
(***************************************************************************)
(* State                                                                   *)
(***************************************************************************)
VARIABLES
  call,                \* the entry point called and its arguments
  pc,                  \* the request the call is waiting on; "start"; "done"
  ctx,                 \* who awaits the running pollChangeSet
  script,              \* script of the current upsertStack activation
  options,             \* its normalised options
  containsTransforms,  \* its containsTransforms
  csParams,            \* ChangeSetName of the change set being handled
  performUpdate,       \* the reviewer's answer
  outputs,             \* Outputs of the stack deleteStack described
  s3Operations,        \* deleteStack's emptyBucket promises
  log,                 \* requests issued so far, in order
  first,               \* response to the DescribeStacks upsertStack / deleteStack
                       \* issue first
  lastStack,           \* response the last pass of pollStack handled
  lastCs,              \* response the last pass of pollChangeSet handled; dropped
                       \* when the call goes on to create or update, and when the
                       \* prompt or the ExecuteChangeSet it led to is answered
  observed,            \* DescribeStacks responses pollStack has handled
  waits,               \* timers set so far
  submitErr,           \* message of the error that answered the last submission
                       \* (CreateStack, UpdateStack, ..., DeleteStack); None if it
                       \* succeeded
  result,              \* the promise the call returned
  now,                 \* Date.now(), in milliseconds
  generated,           \* the change-set name each invocation of the change-set
                       \* path generated (None: not yet)
  bucket,              \* the bucket emptyBucket was called on
  remaining,           \* the object versions the bucket still holds: <<key, id>>
  ebPc,                \* what emptyBucket's listAndDelete is waiting on
  versioningEnabled,   \* emptyBucket's versioningEnabled
  token,               \* continuationToken of the running listAndDelete (0: none)
  page,                \* the ListObjectsV2 response being handled
  chains,              \* deleteVersionedObjects: the listAndDelete of each key
  requests,            \* S3 requests sent so far, counted by command
  submitted,           \* what DeleteObjects requests named so far: <<key, id>>,
                       \* id 0 for a key without VersionId
  s3Err,               \* the error S3 answered with, if it did
  ebResult,            \* the promise emptyBucket returned
  unhandled,           \* a promise nobody handles was rejected
  stackOutput,         \* updateIoTPolicies: the keys of its stackOutput
  policies,            \* the versions and the default version of each policy
  iotChains,           \* the promise pushed for each template key
  iotRequests,         \* IoT requests sent so far
  iotResult,           \* the promise updateIoTPolicies returned
  iotUnhandled,        \* a promise of it nobody handles was rejected
  logGroups,           \* deleteLogGroups: the log groups that exist
  cwCount,             \* how many matched the filter when it was called
  cwPc,                \* what its listAndDelete is waiting on
  cwToken,             \* continuationToken of the running listAndDelete
  cwPage,              \* the deleteLogGroup of each group of the page
  cwRequests,          \* CloudWatch Logs requests sent so far, by command
  cwDeleted,           \* the groups DeleteLogGroup requests named so far
  cwResult             \* the promise deleteLogGroups returned

vars ==
  <<call, pc, ctx, script, options, containsTransforms, csParams, performUpdate,
    outputs, s3Operations, log, first, lastStack, lastCs, observed, waits, submitErr,
    result, now, generated, bucket, remaining, ebPc, versioningEnabled, token, page,
    chains, requests, submitted, s3Err, ebResult, unhandled, stackOutput, policies,
    iotChains, iotRequests, iotResult, iotUnhandled, logGroups, cwCount, cwPc, cwToken,
    cwPage, cwRequests, cwDeleted, cwResult>>

callVars ==
  <<call, pc, ctx, script, options, containsTransforms, csParams, performUpdate,
    outputs, s3Operations, log, first, lastStack, lastCs, observed, waits, submitErr,
    result>>
clockVars == <<now, generated>>
s3Vars ==
  <<bucket, remaining, ebPc, versioningEnabled, token, page, chains, requests,
    submitted, s3Err, ebResult, unhandled>>
iotVars == <<stackOutput, policies, iotChains, iotRequests, iotResult, iotUnhandled>>
cwVars ==
  <<logGroups, cwCount, cwPc, cwToken, cwPage, cwRequests, cwDeleted, cwResult>>
frame == <<script, options, containsTransforms>>
delVars == <<outputs, s3Operations>>
pollVars == <<first, lastStack, lastCs, observed, waits>>
seenVars == <<pollVars, submitErr>>

Init ==
  /\ call \in Calls
  /\ pc = "start"
  /\ ctx = ""
  /\ script = NoScript
  /\ options = NoOptions
  /\ containsTransforms = FALSE
  /\ csParams = None
  /\ performUpdate = FALSE
  /\ outputs = [defined |-> FALSE, list |-> <<>>]
  /\ s3Operations = <<>>
  /\ log = <<>>
  /\ first = NoStack
  /\ lastStack = NoStack
  /\ lastCs = NoCs
  /\ observed = 0
  /\ waits = 0
  /\ submitErr = None
  /\ result = Pending
  /\ now = 0
  /\ generated = [r \in Runs |-> None]
  /\ bucket = NoBucket
  /\ remaining = {}
  /\ ebPc = "idle"
  /\ versioningEnabled = FALSE
  /\ token = 0
  /\ page = NoPage
  /\ chains = <<>>
  /\ requests = [c \in S3Commands |-> 0]
  /\ submitted = {}
  /\ s3Err = None
  /\ ebResult = EbPending
  /\ unhandled = FALSE
  /\ stackOutput = {}
  /\ policies = NoChains
  /\ iotChains = NoChains
  /\ iotRequests = {}
  /\ iotResult = IotPending
  /\ iotUnhandled = FALSE
  /\ logGroups = {}
  /\ cwCount = 0
  /\ cwPc = "idle"
  /\ cwToken = 0
  /\ cwPage = NoChains
  /\ cwRequests = [c \in CwCommands |-> 0]
  /\ cwDeleted = {}
  /\ cwResult = EbPending

(***************************************************************************)
(* Building blocks of the actions                                          *)
(***************************************************************************)
\* generateChangeSetName(): the name for the current reading of the clock
generateChangeSetName == generateChangeSetNameAt(now)

\* the awaited promise is settled: the call is over
Settle(r) == /\ result' = r /\ pc' = "done" /\ log' = log

\* a request is sent and awaited
Send(r, next) == /\ log' = Append(log, r) /\ pc' = next /\ result' = result

\* pollStack(params): its DescribeStacks is sent
StartPollStack == Send(DescribeStacksReq(call.name), "pollStack")

\* pollChangeSet(params): its DescribeChangeSet is sent
StartPollChangeSet(csn) == Send(CsReq("DescribeChangeSet", call.name, csn), "pollChangeSet")

\* (mutant) the catch branch written with the update branch's requests
CreatePathRequestAsUpdate(ct, sn, tpl) ==
  IF ct THEN CreateChangeSetReq(sn, tpl, generateChangeSetName, "UPDATE")
        ELSE UpdateStackReq(sn, tpl)
\* the request upsertStack issues when its DescribeStacks failed
CreatePathRequest(ct, sn, tpl) ==
  IF ct THEN CreateChangeSetReq(sn, tpl, generateChangeSetName, "CREATE")
        ELSE CreateStackReq(sn, tpl)

\* (mutant) executeUpdate that updates the stack directly whatever the template
ExecuteUpdateRequestDirect(ct, sn, tpl) == UpdateStackReq(sn, tpl)
\* the request executeUpdate issues
ExecuteUpdateRequest(ct, sn, tpl) ==
  IF ct THEN CreateChangeSetReq(sn, tpl, generateChangeSetName, "UPDATE")
        ELSE UpdateStackReq(sn, tpl)

\* createStack / updateStack / applyChangeSet are entered with request r
Issue(r) ==
  CASE r.op = "CreateStack" ->
         /\ Send(r, "CreateStack") /\ UNCHANGED <<ctx, csParams>>
    [] r.op = "UpdateStack" ->
         /\ Send(r, "UpdateStack") /\ UNCHANGED <<ctx, csParams>>
    [] r.op = "CreateChangeSet" ->
         /\ Send(r, "CreateChangeSet") /\ ctx' = "apply" /\ csParams' = r.ChangeSetName


\* (mutant) another phrase looked for
IsNotFoundOtherPhrase(msg) == Contains(msg, "not found")
\* err.message.indexOf('does not exist') >= 0
IsNotFound(msg) == Contains(msg, "does not exist")

\* err.toString().indexOf('No updates are to be performed') >= 0
IsNoUpdates(msg) == Contains(msg, "No updates are to be performed")

\* what one pass of pollStack makes of a DescribeStacks response:
\* a settled result, or Pending when it sets the timer
PollStackOutcome(r) ==
  IF ~r.ok
    THEN IF IsNotFound(r.msg) THEN Undefined ELSE Rejected(r.msg)
    ELSE CASE pollStackSwitch(r.status) = "resolve" -> StackData(r.status)
           [] pollStackSwitch(r.status) = "reject" -> Rejected(MsgStackFailed)
           [] OTHER -> Pending

\* (mutant) an unexpected describe error retried after the poll interval
PollChangeSetOutcomeRetry(r) ==
  IF ~r.ok
    THEN IF IsNotFound(r.msg) THEN Undefined ELSE Pending
    ELSE LET sw == pollChangeSetSwitch(r.status, r.reason) IN
         CASE sw = "resolve" -> CsData(r.status)
           [] sw = "noop" -> Undefined
           [] sw = "reject" -> Rejected(MsgChangeSetFailed)
           [] sw = "typeerror" -> Rejected(MsgTypeError)
           [] OTHER -> Pending
\* what one pass of pollChangeSet makes of a DescribeChangeSet response
PollChangeSetOutcome(r) ==
  IF ~r.ok
    THEN IF IsNotFound(r.msg) THEN Undefined ELSE Rejected(r.msg)
    ELSE LET sw == pollChangeSetSwitch(r.status, r.reason) IN
         CASE sw = "resolve" -> CsData(r.status)
           [] sw = "noop" -> Undefined
           [] sw = "reject" -> Rejected(MsgChangeSetFailed)
           [] sw = "typeerror" -> Rejected(MsgTypeError)
           [] OTHER -> Pending

\* the body of upsertStack up to its first await, for script scr and
\* normalised options o
UpsertBody(scr, o) ==
  IF o.containsTransforms = "absent" /\ ~Readable(scr)
    THEN /\ Settle(Rejected(MsgENOENT))
         /\ UNCHANGED frame
    ELSE /\ script' = scr
         /\ options' = o
         /\ containsTransforms' = containsTransformsOf(o, scr)
         /\ IF o.s3Bucket = "set"
              THEN Send([Req("PutS3Object", call.name) EXCEPT !.Bucket = "s3Bucket"],
                        "PutS3Object")
              ELSE IF scr.kind # "s3url" /\ ~scr.exists
                     THEN Settle(Rejected(MsgScriptMissing))
                     ELSE Send(DescribeStacksReq(call.name), "upsertDescribe")

(***************************************************************************)
(* upsertStack                                                             *)
(***************************************************************************)
UpsertStackStart ==
  /\ pc = "start"
  /\ call.fn = "upsertStack"
  /\ UpsertBody(call.script, NormalizeOptions(call.options))
  /\ UNCHANGED <<clockVars, s3Vars, iotVars, cwVars, call, ctx, csParams, performUpdate, delVars, seenVars>>

\* (mutant) the recursive call made without the review flag
PutS3ObjectDoneDropsReview ==
  /\ pc = "PutS3Object"
  /\ \E ok \in BOOLEAN :
       /\ ok => Readable(script)
       /\ IF ok
            THEN UpsertBody([kind |-> "s3url", exists |-> FALSE, body |-> None],
                            [NoOptions EXCEPT
                               !.review = "false",
                               !.containsTransforms =
                                 IF containsTransforms THEN "true" ELSE "false"])
            ELSE /\ Settle(Rejected(ErrOther))
                 /\ UNCHANGED frame
  /\ UNCHANGED <<clockVars, s3Vars, iotVars, cwVars, call, ctx, csParams, performUpdate, delVars, seenVars>>
\* await s3.putS3Object(...), then the recursive upsertStack on the URL
PutS3ObjectDone ==
  /\ pc = "PutS3Object"
  /\ \E ok \in BOOLEAN :
       /\ ok => Readable(script)
       /\ IF ok
            THEN UpsertBody([kind |-> "s3url", exists |-> FALSE, body |-> None],
                            [NoOptions EXCEPT
                               !.review = IF options.review = "true" THEN "true" ELSE "false",
                               !.containsTransforms =
                                 IF containsTransforms THEN "true" ELSE "false"])
            ELSE /\ Settle(Rejected(ErrOther))
                 /\ UNCHANGED frame
  /\ UNCHANGED <<clockVars, s3Vars, iotVars, cwVars, call, ctx, csParams, performUpdate, delVars, seenVars>>

\* the try/catch around the first DescribeStacks, and the review branch
UpsertDescribed ==
  /\ pc = "upsertDescribe"
  /\ \E r \in FirstDescribeResponses :
       /\ first' = r
       /\ IF ~r.ok
            THEN Issue(CreatePathRequest(containsTransforms, call.name, TemplateField(script)))
            ELSE IF options.review = "true"
                   THEN /\ Send(CreateChangeSetReq(call.name, TemplateField(script),
                                                   PreviewName(call.name), ""),
                                "CreateChangeSet")
                        /\ ctx' = "review"
                        /\ csParams' = PreviewName(call.name)
                   ELSE Issue(ExecuteUpdateRequest(containsTransforms, call.name,
                                                   TemplateField(script)))
  /\ UNCHANGED <<clockVars, s3Vars, iotVars, cwVars, call, frame, performUpdate, delVars, lastStack, lastCs, observed, waits,
                  submitErr>>

\* (mutant) a declining answer raised at once, the cleanup kept for approvals
PromptAnsweredCleanupOnApproval ==
  /\ pc = "prompt"
  /\ \E a \in { "yes", "no", "error" } :
       IF a = "error"
         THEN /\ Settle(Rejected(MsgPromptFailed))
              /\ UNCHANGED <<ctx, csParams, performUpdate>>
         ELSE IF a = "no"
           THEN /\ performUpdate' = FALSE
                /\ Settle(Rejected(MsgReviewerRejected))
                /\ UNCHANGED <<ctx, csParams>>
           ELSE /\ performUpdate' = TRUE
                /\ Send(CsReq("DeleteChangeSet", call.name, PreviewName(call.name)),
                        "DeleteChangeSet")
                /\ ctx' = "cleanup"
                /\ csParams' = PreviewName(call.name)
  /\ lastCs' = IF pc' = "DeleteChangeSet" THEN NoCs ELSE lastCs
  /\ UNCHANGED <<clockVars, s3Vars, iotVars, cwVars, call, frame, delVars, first, lastStack, observed, waits, submitErr>>
\* await inquirer.prompt(...), then deleteChangeSet(csParams)
PromptAnswered ==
  /\ pc = "prompt"
  /\ \E a \in { "yes", "no", "error" } :
       IF a = "error"
         THEN /\ Settle(Rejected(MsgPromptFailed))
              /\ UNCHANGED <<ctx, csParams, performUpdate>>
         ELSE /\ performUpdate' = (a = "yes")
              /\ Send(CsReq("DeleteChangeSet", call.name, PreviewName(call.name)),
                      "DeleteChangeSet")
              /\ ctx' = "cleanup"
              /\ csParams' = PreviewName(call.name)
  /\ lastCs' = IF pc' = "DeleteChangeSet" THEN NoCs ELSE lastCs
  /\ UNCHANGED <<clockVars, s3Vars, iotVars, cwVars, call, frame, delVars, first, lastStack, observed, waits, submitErr>>

(***************************************************************************)
(* createStack, updateStack, createChangeSet, executeChangeSet,            *)
(* deleteChangeSet                                                         *)
(***************************************************************************)
CreateStackStart ==
  /\ pc = "start"
  /\ call.fn = "createStack"
  /\ Send(CreateStackReq(call.name, "TemplateBody"), "CreateStack")
  /\ UNCHANGED <<clockVars, s3Vars, iotVars, cwVars, call, ctx, frame, csParams, performUpdate, delVars, seenVars>>

CreateStackDone ==
  /\ pc = "CreateStack"
  /\ \E ok \in BOOLEAN :
       /\ submitErr' = IF ok THEN None ELSE ErrOther
       /\ IF ok THEN StartPollStack ELSE Settle(Rejected(ErrOther))
  /\ UNCHANGED <<clockVars, s3Vars, iotVars, cwVars, call, ctx, frame, csParams, performUpdate, delVars, pollVars>>

UpdateStackStart ==
  /\ pc = "start"
  /\ call.fn = "updateStack"
  /\ Send(UpdateStackReq(call.name, "TemplateBody"), "UpdateStack")
  /\ UNCHANGED <<clockVars, s3Vars, iotVars, cwVars, call, ctx, frame, csParams, performUpdate, delVars, seenVars>>

UpdateStackDone ==
  /\ pc = "UpdateStack"
  /\ \E m \in { None, ErrNoUpdates, ErrOther } :
       /\ submitErr' = m
       /\ IF m = None \/ IsNoUpdates(m) THEN StartPollStack ELSE Settle(Rejected(m))
  /\ UNCHANGED <<clockVars, s3Vars, iotVars, cwVars, call, ctx, frame, csParams, performUpdate, delVars, pollVars>>

CreateChangeSetStart ==
  /\ pc = "start"
  /\ call.fn = "createChangeSet"
  /\ Send(CreateChangeSetReq(call.name, "TemplateBody", CallerChangeSetName, "UPDATE"),
          "CreateChangeSet")
  /\ ctx' = "return"
  /\ csParams' = CallerChangeSetName
  /\ UNCHANGED <<clockVars, s3Vars, iotVars, cwVars, call, frame, performUpdate, delVars, seenVars>>

CreateChangeSetDone ==
  /\ pc = "CreateChangeSet"
  /\ \E ok \in BOOLEAN :
       /\ submitErr' = IF ok THEN None ELSE ErrOther
       /\ IF ok THEN StartPollChangeSet(csParams) ELSE Settle(Rejected(ErrOther))
  /\ UNCHANGED <<clockVars, s3Vars, iotVars, cwVars, call, ctx, frame, csParams, performUpdate, delVars, pollVars>>

\* (mutant) executeChangeSet polling the change set it executed
ExecuteChangeSetDonePollsChangeSet ==
  /\ pc = "ExecuteChangeSet"
  /\ \E ok \in BOOLEAN :
       /\ submitErr' = IF ok THEN None ELSE ErrOther
       /\ IF ok THEN StartPollChangeSet(csParams) ELSE Settle(Rejected(ErrOther))
  /\ lastCs' = NoCs
  /\ UNCHANGED <<clockVars, s3Vars, iotVars, cwVars, call, ctx, frame, csParams, performUpdate, delVars, first, lastStack,
                  observed, waits>>
\* executeChangeSet: the submission answered, then pollStack(params)
ExecuteChangeSetDone ==
  /\ pc = "ExecuteChangeSet"
  /\ \E ok \in BOOLEAN :
       /\ submitErr' = IF ok THEN None ELSE ErrOther
       /\ IF ok THEN StartPollStack ELSE Settle(Rejected(ErrOther))
  /\ lastCs' = NoCs
  /\ UNCHANGED <<clockVars, s3Vars, iotVars, cwVars, call, ctx, frame, csParams, performUpdate, delVars, first, lastStack,
                  observed, waits>>

DeleteChangeSetStart ==
  /\ pc = "start"
  /\ call.fn = "deleteChangeSet"
  /\ Send(CsReq("DeleteChangeSet", call.name, CallerChangeSetName), "DeleteChangeSet")
  /\ ctx' = "return"
  /\ csParams' = CallerChangeSetName
  /\ UNCHANGED <<clockVars, s3Vars, iotVars, cwVars, call, frame, performUpdate, delVars, seenVars>>

DeleteChangeSetDone ==
  /\ pc = "DeleteChangeSet"
  /\ \E ok \in BOOLEAN :
       /\ submitErr' = IF ok THEN None ELSE ErrOther
       /\ IF ok THEN StartPollChangeSet(csParams) ELSE Settle(Rejected(ErrOther))
  /\ UNCHANGED <<clockVars, s3Vars, iotVars, cwVars, call, ctx, frame, csParams, performUpdate, delVars, pollVars>>


(***************************************************************************)
(* pollChangeSet                                                           *)
(***************************************************************************)
PollChangeSetStart ==
  /\ pc = "start"
  /\ call.fn = "pollChangeSet"
  /\ StartPollChangeSet(CallerChangeSetName)
  /\ ctx' = "return"
  /\ csParams' = CallerChangeSetName
  /\ UNCHANGED <<clockVars, s3Vars, iotVars, cwVars, call, frame, performUpdate, delVars, seenVars>>

\* (mutant) the answer object tested instead of its field
ReviewerAcceptedAlways(answer) == TRUE
\* if (response.performUpdate)
ReviewerAccepted(answer) == answer

\* (mutant) the reviewer prompted whatever createChangeSet returned
AfterPollChangeSetPromptAlways(out) ==
  CASE ctx = "return" ->
         /\ Settle(out)
         /\ UNCHANGED <<ctx, csParams>>
    [] ctx = "apply" ->
         /\ IF out.kind = "changeset"
              THEN Send(CsReq("ExecuteChangeSet", call.name, csParams), "ExecuteChangeSet")
              ELSE Settle(Undefined)
         /\ UNCHANGED <<ctx, csParams>>
    [] ctx = "review" ->
         /\ Send(Req("prompt", call.name), "prompt")
         /\ UNCHANGED <<ctx, csParams>>
    [] ctx = "cleanup" ->
         IF ReviewerAccepted(performUpdate)
           THEN Issue(ExecuteUpdateRequest(containsTransforms, call.name,
                                           TemplateField(script)))
           ELSE /\ Settle(Rejected(MsgReviewerRejected))
                /\ UNCHANGED <<ctx, csParams>>
\* the code that runs when pollChangeSet returned value out (a change set
\* or nothing) to the function that awaited it
AfterPollChangeSet(out) ==
  CASE ctx = "return" ->
         \* createChangeSet / deleteChangeSet / pollChangeSet called directly
         /\ Settle(out)
         /\ UNCHANGED <<ctx, csParams>>
    [] ctx = "apply" ->
         \* applyChangeSet: if (cs) executeChangeSet(csParams)
         /\ IF out.kind = "changeset"
              THEN Send(CsReq("ExecuteChangeSet", call.name, csParams), "ExecuteChangeSet")
              ELSE Settle(Undefined)
         /\ UNCHANGED <<ctx, csParams>>
    [] ctx = "review" ->
         \* upsertStack: if (cs) prompt, else pollStack(params)
         /\ IF out.kind = "changeset"
              THEN Send(Req("prompt", call.name), "prompt")
              ELSE StartPollStack
         /\ UNCHANGED <<ctx, csParams>>
    [] ctx = "cleanup" ->
         \* upsertStack after deleteChangeSet(csParams)
         IF ReviewerAccepted(performUpdate)
           THEN Issue(ExecuteUpdateRequest(containsTransforms, call.name,
                                           TemplateField(script)))
           ELSE /\ Settle(Rejected(MsgReviewerRejected))
                /\ UNCHANGED <<ctx, csParams>>

PollChangeSetDescribed ==
  /\ pc = "pollChangeSet"
  /\ \E r \in DescribeChangeSetResponses :
       LET out == PollChangeSetOutcome(r) IN
       /\ out = Pending => waits < MaxWaits
       /\ IF out = Pending
            THEN /\ Send(TimerReq(call.name), "timerChangeSet")
                 /\ waits' = waits + 1
                 /\ UNCHANGED <<ctx, csParams>>
            ELSE /\ waits' = waits
                 /\ IF out.state = "rejected"
                      THEN /\ Settle(out)
                           /\ UNCHANGED <<ctx, csParams>>
                      ELSE AfterPollChangeSet(out)
       /\ lastCs' = IF pc' \in { "CreateStack", "UpdateStack", "CreateChangeSet" }
                      THEN NoCs ELSE r
  /\ UNCHANGED <<clockVars, s3Vars, iotVars, cwVars, call, frame, performUpdate, delVars, first, lastStack, observed,
                  submitErr>>

\* the timer of pollChangeSet fires: pollChangeSet(params) again
PollChangeSetTimer ==
  /\ pc = "timerChangeSet"
  /\ StartPollChangeSet(csParams)
  /\ UNCHANGED <<clockVars, s3Vars, iotVars, cwVars, call, ctx, frame, csParams, performUpdate, delVars, seenVars>>

(***************************************************************************)
(* pollStack                                                               *)
(***************************************************************************)
PollStackStart ==
  /\ pc = "start"
  /\ call.fn = "pollStack"
  /\ StartPollStack
  /\ UNCHANGED <<clockVars, s3Vars, iotVars, cwVars, call, ctx, frame, csParams, performUpdate, delVars, seenVars>>

PollStackDescribed ==
  /\ pc = "pollStack"
  /\ \E r \in DescribeStacksResponses :
       LET out == PollStackOutcome(r) IN
       /\ out = Pending => waits < MaxWaits
       /\ lastStack' = r
       /\ observed' = observed + 1
       /\ IF out = Pending
            THEN /\ Send(TimerReq(call.name), "timerStack")
                 /\ waits' = waits + 1
            ELSE /\ Settle(out)
                 /\ waits' = waits
  /\ UNCHANGED <<clockVars, s3Vars, iotVars, cwVars, call, ctx, frame, csParams, performUpdate, delVars, first, lastCs,
                  submitErr>>

\* the timer of pollStack fires: pollStack(params) again
PollStackTimer ==
  /\ pc = "timerStack"
  /\ StartPollStack
  /\ UNCHANGED <<clockVars, s3Vars, iotVars, cwVars, call, ctx, frame, csParams, performUpdate, delVars, seenVars>>

(***************************************************************************)
(* deleteStack                                                             *)
(***************************************************************************)
DeleteStackStart ==
  /\ pc = "start"
  /\ call.fn = "deleteStack"
  /\ Send(DescribeStacksReq(call.name), "deleteDescribe")
  /\ UNCHANGED <<clockVars, s3Vars, iotVars, cwVars, call, ctx, frame, csParams, performUpdate, delVars, seenVars>>

\* the outputs deleteStack empties: those whose key passes the bucket test
BucketOutputs(outs) ==
  IF outs.defined
    THEN SelectSeq(outs.list, LAMBDA o : IsBucketKey(o.OutputKey))
    ELSE <<>>

EmptyBucketReq(b) == [Req("emptyBucket", call.name) EXCEPT !.Bucket = b]
DeleteStackReq == Req("DeleteStack", call.name)

DescribedOutputs ==
  { [defined |-> FALSE, list |-> <<>>] }
    \cup { [defined |-> TRUE, list |-> l] : l \in OutputLists }

\* (mutant) every error of the first DescribeStacks taken as an absent stack
DeleteStackDescribedAnyErrorAbsent ==
  /\ pc = "deleteDescribe"
  /\ \E r \in FirstDescribeResponses, outs \in DescribedOutputs :
       /\ first' = r
       /\ IF ~r.ok
            THEN /\ ~outs.defined
                 /\ Settle(Undefined)
                 /\ UNCHANGED delVars
            ELSE LET ops == BucketOutputs(outs)
                     started == [i \in 1..Len(ops) |-> EmptyBucketReq(ops[i].OutputValue)]
                 IN  /\ outputs' = outs
                     /\ s3Operations' =
                          [i \in 1..Len(ops) |->
                             [bucket |-> ops[i].OutputValue, state |-> "pending"]]
                     /\ result' = result
                     /\ IF Len(ops) = 0
                          THEN /\ log' = Append(log, DeleteStackReq)
                               /\ pc' = "DeleteStack"
                          ELSE /\ log' = log \o started
                               /\ pc' = "emptyBuckets"
  /\ UNCHANGED <<clockVars, s3Vars, iotVars, cwVars, call, ctx, frame, csParams, performUpdate, lastStack, lastCs, observed,
                  waits, submitErr>>

\* the first DescribeStacks of deleteStack answered; on success every
\* emptyBucket is started, and with none to wait for DeleteStack is sent
DeleteStackDescribed ==
  /\ pc = "deleteDescribe"
  /\ \E r \in FirstDescribeResponses, outs \in DescribedOutputs :
       /\ first' = r
       /\ IF ~r.ok
            THEN /\ ~outs.defined
                 /\ Settle(IF IsNotFound(r.msg) THEN Undefined ELSE Rejected(r.msg))
                 /\ UNCHANGED delVars
            ELSE LET ops == BucketOutputs(outs)
                     started == [i \in 1..Len(ops) |-> EmptyBucketReq(ops[i].OutputValue)]
                 IN  /\ outputs' = outs
                     /\ s3Operations' =
                          [i \in 1..Len(ops) |->
                             [bucket |-> ops[i].OutputValue, state |-> "pending"]]
                     /\ result' = result
                     /\ IF Len(ops) = 0
                          THEN /\ log' = Append(log, DeleteStackReq)
                               /\ pc' = "DeleteStack"
                          ELSE /\ log' = log \o started
                               /\ pc' = "emptyBuckets"
  /\ UNCHANGED <<clockVars, s3Vars, iotVars, cwVars, call, ctx, frame, csParams, performUpdate, lastStack, lastCs, observed,
                  waits, submitErr>>

\* (mutant) Promise.allSettled: rejections do not reject the whole
PromiseAllSettled(ops) ==
  IF \A j \in 1..Len(ops) : ops[j].state # "pending" THEN "fulfilled" ELSE "pending"
\* Promise.all over promises that settle one at a time
PromiseAll(ops) ==
  IF \E j \in 1..Len(ops) : ops[j].state = "rejected"
    THEN "rejected"
    ELSE IF \A j \in 1..Len(ops) : ops[j].state = "fulfilled"
           THEN "fulfilled" ELSE "pending"

\* one emptyBucket promise settles; await Promise.all(s3Operations) resumes
\* on the first rejection or when the last one is fulfilled
EmptyBucketSettles ==
  /\ \E i \in 1..Len(s3Operations), ok \in BOOLEAN :
       /\ s3Operations[i].state = "pending"
       /\ s3Operations' =
            [s3Operations EXCEPT ![i].state = IF ok THEN "fulfilled" ELSE "rejected"]
       /\ IF pc # "emptyBuckets"
            THEN UNCHANGED <<pc, log, result>>
            ELSE CASE PromiseAll(s3Operations') = "rejected" ->
                        Settle(Rejected(ErrOther))
                   [] PromiseAll(s3Operations') = "fulfilled" ->
                        Send(DeleteStackReq, "DeleteStack")
                   [] OTHER -> UNCHANGED <<pc, log, result>>
  /\ UNCHANGED <<clockVars, s3Vars, iotVars, cwVars, call, ctx, frame, csParams, performUpdate, outputs, seenVars>>

DeleteStackDone ==
  /\ pc = "DeleteStack"
  /\ \E ok \in BOOLEAN :
       /\ submitErr' = IF ok THEN None ELSE ErrOther
       /\ IF ok THEN StartPollStack ELSE Settle(Rejected(ErrOther))
  /\ UNCHANGED <<clockVars, s3Vars, iotVars, cwVars, call, ctx, frame, csParams, performUpdate, delVars, pollVars>>

(***************************************************************************)
(* Specification                                                           *)
(***************************************************************************)
Next ==
  \/ UpsertStackStart
  \/ PutS3ObjectDone
  \/ UpsertDescribed
  \/ PromptAnswered
  \/ CreateStackStart
  \/ CreateStackDone
  \/ UpdateStackStart
  \/ UpdateStackDone
  \/ CreateChangeSetStart
  \/ CreateChangeSetDone
  \/ ExecuteChangeSetDone
  \/ DeleteChangeSetStart
  \/ DeleteChangeSetDone
  \/ PollChangeSetStart
  \/ PollChangeSetDescribed
  \/ PollChangeSetTimer
  \/ PollStackStart
  \/ PollStackDescribed
  \/ PollStackTimer
  \/ DeleteStackStart
  \/ DeleteStackDescribed
  \/ EmptyBucketSettles
  \/ DeleteStackDone

Spec == Init /\ [][Next]_vars

\* upsertStack alone
NextUpsert ==
  \/ UpsertStackStart
  \/ PutS3ObjectDone
  \/ UpsertDescribed
  \/ PromptAnswered
  \/ CreateStackDone
  \/ UpdateStackDone
  \/ CreateChangeSetDone
  \/ ExecuteChangeSetDone
  \/ DeleteChangeSetDone
  \/ PollChangeSetDescribed
  \/ PollChangeSetTimer
  \/ PollStackDescribed
  \/ PollStackTimer

InitUpsert == Init /\ call.fn = "upsertStack"

SpecUpsert == InitUpsert /\ [][NextUpsert]_vars

\* deleteStack alone
NextDelete ==
  \/ DeleteStackStart
  \/ DeleteStackDescribed
  \/ EmptyBucketSettles
  \/ DeleteStackDone
  \/ PollStackDescribed
  \/ PollStackTimer

InitDelete == Init /\ call.fn = "deleteStack"

SpecDelete == InitDelete /\ [][NextDelete]_vars

\* pollStack alone
NextPollStack ==
  \/ PollStackStart
  \/ PollStackDescribed
  \/ PollStackTimer

InitPollStack == Init /\ call.fn = "pollStack"

SpecPollStack == InitPollStack /\ [][NextPollStack]_vars

\* pollChangeSet, and createChangeSet / deleteChangeSet, which return what
\* their pollChangeSet returns
NextChangeSet ==
  \/ PollChangeSetStart
  \/ CreateChangeSetStart
  \/ CreateChangeSetDone
  \/ DeleteChangeSetStart
  \/ DeleteChangeSetDone
  \/ PollChangeSetDescribed
  \/ PollChangeSetTimer

InitChangeSet ==
  Init /\ call.fn \in { "pollChangeSet", "createChangeSet", "deleteChangeSet" }

SpecChangeSet == InitChangeSet /\ [][NextChangeSet]_vars

\* the two polls called directly
NextPoll ==
  \/ PollStackStart
  \/ PollStackDescribed
  \/ PollStackTimer
  \/ PollChangeSetStart
  \/ PollChangeSetDescribed
  \/ PollChangeSetTimer

InitPoll == Init /\ call.fn \in { "pollStack", "pollChangeSet" }

SpecPoll == InitPoll /\ [][NextPoll]_vars

\* createStack and updateStack called directly
NextCreateUpdate ==
  \/ CreateStackStart
  \/ CreateStackDone
  \/ UpdateStackStart
  \/ UpdateStackDone
  \/ PollStackDescribed
  \/ PollStackTimer

InitCreateUpdate == Init /\ call.fn \in { "createStack", "updateStack" }

SpecCreateUpdate == InitCreateUpdate /\ [][NextCreateUpdate]_vars

(***************************************************************************)
(* generateChangeSetName over several invocations                          *)
(***************************************************************************)
\* time passes
Tick ==
  /\ \E d \in TickSteps :
       /\ now + d <= MaxNow
       /\ now' = now + d
  /\ UNCHANGED <<generated, s3Vars, iotVars, cwVars, callVars>>

\* an invocation reaches applyChangeSet(... ChangeSetName: generateChangeSetName() ...)
Generate ==
  /\ \E r \in Runs :
       /\ generated[r] = None
       /\ generated' = [generated EXCEPT ![r] = generateChangeSetName]
  /\ UNCHANGED <<now, s3Vars, iotVars, cwVars, callVars>>

NextNames ==
  \/ Tick
  \/ Generate

\* invocations of upsertStack on one stack, whose template has transforms
InitNames ==
  Init /\ call = [fn |-> "upsertStack", name |-> "S1",
                  script |-> [kind |-> "local", exists |-> TRUE,
                              body |-> <<"X", "T", "C", "W", "A", "X">>],
                  options |-> NoOptions]

SpecNames == InitNames /\ [][NextNames]_vars


(***************************************************************************)
(* s3.emptyBucket                                                          *)
(***************************************************************************)
Sent(c, n) == [requests EXCEPT ![c] = @ + n]

\* emptyBucket(bucketName): GetBucketVersioning is sent
EmptyBucketStart ==
  /\ ebPc = "idle"
  /\ \E b \in Buckets :
       /\ bucket' = b
       /\ remaining' = ObjectVersions(b)
  /\ requests' = Sent("GetBucketVersioning", 1)
  /\ ebPc' = "GetBucketVersioning"
  /\ UNCHANGED <<versioningEnabled, token, page, chains, submitted, s3Err, ebResult,
                  unhandled, callVars, clockVars, iotVars, cwVars>>

\* the catch of emptyBucket
EbCatch(err) ==
  /\ ebPc' = "done"
  /\ ebResult' = IF Contains(err, "The specified bucket does not exist")
                   THEN EbResolved
                   ELSE EbRejected(err)

\* listAndDelete returned: emptyBucket is over
EbReturn ==
  /\ ebPc' = "done"
  /\ ebResult' = EbResolved

\* await s3.send(new GetBucketVersioningCommand(params)), then listAndDelete()
GetBucketVersioningDone ==
  /\ ebPc = "GetBucketVersioning"
  /\ \E err \in S3Answers(bucket) :
       IF err = None
         THEN /\ versioningEnabled' = (bucket.Status = "Enabled")
              /\ requests' = Sent("ListObjectsV2", 1)
              /\ ebPc' = "ListObjectsV2"
              /\ UNCHANGED <<s3Err, ebResult>>
         ELSE /\ s3Err' = err
              /\ EbCatch(err)
              /\ UNCHANGED <<versioningEnabled, requests>>
  /\ UNCHANGED <<bucket, remaining, token, page, chains, submitted, unhandled,
                  callVars, clockVars, iotVars, cwVars>>

\* deleteVersionedObjects starts: one listAndDelete(key) per key
StartChains(keys) ==
  [k \in keys |-> [pc |-> "ListObjectVersions", data |-> NoVersions, nested |-> FALSE]]

\* const data = await listObjects(bucketName, continuationToken)
ListObjectsDone ==
  /\ ebPc = "ListObjectsV2"
  /\ \E err \in S3Answers(bucket) :
       IF err # None
         THEN /\ s3Err' = err
              /\ EbCatch(err)
              /\ UNCHANGED <<page, chains, requests, submitted>>
         ELSE LET data == ListObjectsV2Data(remaining, token) IN
              /\ page' = data
              /\ s3Err' = s3Err
              /\ IF data.Contents = {}
                   THEN /\ EbReturn
                        /\ UNCHANGED <<chains, requests, submitted>>
                   ELSE IF versioningEnabled
                          THEN /\ chains' = StartChains(data.Contents)
                               /\ requests' =
                                    Sent("ListObjectVersions", Cardinality(data.Contents))
                               /\ ebPc' = "deleteVersionedObjects"
                               /\ UNCHANGED <<ebResult, submitted>>
                          ELSE /\ requests' = Sent("DeleteObjects", 1)
                               /\ submitted' =
                                    submitted \cup { <<k, 0>> : k \in data.Contents }
                               /\ ebPc' = "DeleteObjects"
                               /\ UNCHANGED <<ebResult, chains>>
  /\ UNCHANGED <<bucket, remaining, versioningEnabled, token, unhandled,
                  callVars, clockVars, iotVars, cwVars>>

\* (mutant) listAndDelete that returns after the deletion of its first page
DeleteObjectsDoneFirstPageOnly ==
  /\ ebPc = "DeleteObjects"
  /\ \E err \in S3Answers(bucket) :
       IF err # None
         THEN /\ s3Err' = err
              /\ EbCatch(err)
              /\ UNCHANGED <<remaining, token, requests>>
         ELSE /\ remaining' =
                   DeleteObjectsEffect(remaining, { <<k, 0>> : k \in page.Contents })
              /\ s3Err' = s3Err
              /\ EbReturn
              /\ UNCHANGED <<token, requests>>
  /\ UNCHANGED <<bucket, versioningEnabled, page, chains, submitted, unhandled,
                  callVars, clockVars, iotVars, cwVars>>
\* await deleteObjects(bucketName, keys) of emptyBucket's listAndDelete, then
\* the next page if there is a NextContinuationToken
DeleteObjectsDone ==
  /\ ebPc = "DeleteObjects"
  /\ \E err \in S3Answers(bucket) :
       IF err # None
         THEN /\ s3Err' = err
              /\ EbCatch(err)
              /\ UNCHANGED <<remaining, token, requests>>
         ELSE /\ remaining' =
                   DeleteObjectsEffect(remaining, { <<k, 0>> : k \in page.Contents })
              /\ s3Err' = s3Err
              /\ IF page.NextContinuationToken # 0
                   THEN /\ token' = page.NextContinuationToken
                        /\ requests' = Sent("ListObjectsV2", 1)
                        /\ ebPc' = "ListObjectsV2"
                        /\ ebResult' = ebResult
                   ELSE /\ EbReturn
                        /\ UNCHANGED <<token, requests>>
  /\ UNCHANGED <<bucket, versioningEnabled, page, chains, submitted, unhandled,
                  callVars, clockVars, iotVars, cwVars>>

\* (mutant) Promise.any in place of Promise.all
AllChainsAny(cs) ==
  IF \E k \in DOMAIN cs : cs[k].pc = "fulfilled"
    THEN "fulfilled"
    ELSE IF \A k \in DOMAIN cs : cs[k].pc = "rejected"
           THEN "rejected" ELSE "pending"
\* Promise.all(objectKeys.map((key) => listAndDelete(key)))
AllChains(cs) ==
  IF \E k \in DOMAIN cs : cs[k].pc = "rejected"
    THEN "rejected"
    ELSE IF \A k \in DOMAIN cs : cs[k].pc = "fulfilled"
           THEN "fulfilled" ELSE "pending"

\* a listAndDelete(key) of deleteVersionedObjects fulfilled: when it was the
\* last one, deleteVersionedObjects returns, and with it emptyBucket's
\* listAndDelete
AfterChains(cs) ==
  IF ebPc \in { "deleteVersionedObjects", "Promise.all" } /\ AllChains(cs) = "fulfilled"
    THEN EbReturn
    ELSE UNCHANGED <<ebPc, ebResult>>

\* a listAndDelete(key) of deleteVersionedObjects threw: Promise.all rejects,
\* into the catch of emptyBucket when emptyBucket made the call
ChainThrew(err) ==
  CASE ebPc = "deleteVersionedObjects" -> EbCatch(err)
    [] ebPc = "Promise.all" -> /\ ebPc' = "done"
                               /\ ebResult' = EbRejected(err)
    [] OTHER -> UNCHANGED <<ebPc, ebResult>>

\* const data = await listObjectVersions(bucketName, key, markers)
ListObjectVersionsDone ==
  /\ \E k \in DOMAIN chains, err \in S3Answers(bucket) :
       /\ chains[k].pc = "ListObjectVersions"
       /\ IF err # None
            THEN /\ chains' = [chains EXCEPT ![k].pc = "rejected"]
                 /\ s3Err' = err
                 /\ ChainThrew(err)
                 /\ UNCHANGED <<requests, submitted>>
            ELSE LET data == ListObjectVersionsData(remaining, bucket, k,
                                                    chains[k].data.NextKeyMarker,
                                                    chains[k].data.NextVersionIdMarker)
                 IN  /\ s3Err' = s3Err
                     /\ IF data.Versions # {}
                          THEN /\ chains' = [chains EXCEPT ![k].pc = "DeleteObjects",
                                                            ![k].data = data]
                               /\ requests' = Sent("DeleteObjects", 1)
                               /\ submitted' = submitted \cup data.Versions
                               /\ UNCHANGED <<ebPc, ebResult>>
                          ELSE /\ chains' = [chains EXCEPT ![k].pc = "fulfilled"]
                               /\ AfterChains(chains')
                               /\ UNCHANGED <<requests, submitted>>
  /\ UNCHANGED <<bucket, remaining, versioningEnabled, token, page, unhandled,
                  callVars, clockVars, iotVars, cwVars>>

\* await deleteObjects(bucketName, keys) of deleteVersionedObjects, then the
\* older versions if there is a NextKeyMarker
DeleteVersionsDone ==
  /\ \E k \in DOMAIN chains, err \in S3Answers(bucket) :
       /\ chains[k].pc = "DeleteObjects"
       /\ IF err # None
            THEN /\ chains' = [chains EXCEPT ![k].pc = "rejected"]
                 /\ s3Err' = err
                 /\ ChainThrew(err)
                 /\ UNCHANGED <<remaining, requests>>
            ELSE /\ remaining' = DeleteObjectsEffect(remaining, chains[k].data.Versions)
                 /\ s3Err' = s3Err
                 /\ IF chains[k].data.NextKeyMarker # 0
                      THEN /\ chains' = [chains EXCEPT ![k].pc = "ListObjectVersions",
                                                        ![k].nested = TRUE]
                           /\ requests' = Sent("ListObjectVersions", 1)
                           /\ UNCHANGED <<ebPc, ebResult>>
                      ELSE /\ chains' = [chains EXCEPT ![k].pc = "fulfilled"]
                           /\ AfterChains(chains')
                           /\ UNCHANGED requests
  /\ UNCHANGED <<bucket, versioningEnabled, token, page, submitted, unhandled,
                  callVars, clockVars, iotVars, cwVars>>

\* deleteVersionedObjects(bucketName, objectKeys) called by itself, on keys
\* of the bucket
DeleteVersionedObjectsStart ==
  /\ ebPc = "idle"
  /\ \E b \in Buckets :
       /\ b.exists
       /\ bucket' = b
       /\ remaining' = ObjectVersions(b)
       /\ \E objectKeys \in (SUBSET (1..b.objects)) \ { {} } :
            /\ chains' = StartChains(objectKeys)
            /\ requests' = Sent("ListObjectVersions", Cardinality(objectKeys))
  /\ ebPc' = "Promise.all"
  /\ UNCHANGED <<versioningEnabled, token, page, submitted, s3Err, ebResult,
                  unhandled, callVars, clockVars, iotVars, cwVars>>

NextEmptyBucket ==
  \/ EmptyBucketStart
  \/ GetBucketVersioningDone
  \/ ListObjectsDone
  \/ DeleteObjectsDone
  \/ ListObjectVersionsDone
  \/ DeleteVersionsDone

\* emptyBucket called for an output of the stack deleteStack described
InitEmptyBucket ==
  Init /\ call = [fn |-> "deleteStack", name |-> "S1", script |-> NoScript,
                  options |-> NoOptions]

SpecEmptyBucket == InitEmptyBucket /\ [][NextEmptyBucket]_vars

\* deleteVersionedObjects alone
NextDeleteVersioned ==
  \/ DeleteVersionedObjectsStart
  \/ ListObjectVersionsDone
  \/ DeleteVersionsDone

SpecDeleteVersioned == InitEmptyBucket /\ [][NextDeleteVersioned]_vars

(***************************************************************************)
(* s3.emptyBucket written with promise chains (src/s3.js)                   *)
(***************************************************************************)
\* resolve() of emptyBucket's listAndDelete.  emptyBucket waits on the
\* listAndDelete it called, the one without a token; the promise of a
\* listAndDelete called for a later page is returned from a then() whose own
\* promise nothing waits on, so emptyBucket stays pending.
ResolveListAndDelete ==
  IF token = 0
    THEN /\ ebPc' = "done"
         /\ ebResult' = EbResolved
    ELSE /\ ebPc' = "abandoned"
         /\ ebResult' = ebResult

\* .then(() => data.NextContinuationToken ?
\*                listAndDelete(data.NextContinuationToken) : resolve())
ThenAfterDelete(reqs) ==
  IF page.NextContinuationToken # 0
    THEN /\ token' = page.NextContinuationToken
         /\ requests' = [reqs EXCEPT !["ListObjectsV2"] = @ + 1]
         /\ ebPc' = "ListObjectsV2"
         /\ ebResult' = ebResult
    ELSE /\ ResolveListAndDelete
         /\ token' = token
         /\ requests' = reqs

\* the callback of s3.send(new GetBucketVersioningCommand(params), ...)
GetBucketVersioningDoneChained ==
  /\ ebPc = "GetBucketVersioning"
  /\ \E err \in S3Answers(bucket) :
       IF err = None
         THEN /\ versioningEnabled' = (bucket.Status = "Enabled")
              /\ requests' = Sent("ListObjectsV2", 1)
              /\ ebPc' = "ListObjectsV2"
              /\ UNCHANGED <<s3Err, ebResult>>
         ELSE /\ s3Err' = err
              /\ ebPc' = "done"
              /\ ebResult' = IF Contains(err, "The specified bucket does not exist")
                               THEN EbResolved
                               ELSE EbRejected(err)
              /\ UNCHANGED <<versioningEnabled, requests>>
  /\ UNCHANGED <<bucket, remaining, token, page, chains, submitted, unhandled,
                  callVars, clockVars, iotVars, cwVars>>

\* listObjects(bucketName, continuationToken).then(...).catch(err => reject(err))
ListObjectsDoneChained ==
  /\ ebPc = "ListObjectsV2"
  /\ \E err \in S3Answers(bucket) :
       IF err # None
         THEN /\ s3Err' = err
              /\ IF token = 0
                   THEN /\ ebPc' = "done"
                        /\ ebResult' = EbRejected(err)
                        /\ unhandled' = unhandled
                   ELSE /\ ebPc' = "abandoned"
                        /\ ebResult' = ebResult
                        /\ unhandled' = TRUE
              /\ UNCHANGED <<page, chains, requests, submitted>>
         ELSE LET data == ListObjectsV2Data(remaining, token) IN
              /\ page' = data
              /\ UNCHANGED <<s3Err, unhandled>>
              /\ IF data.Contents = {}
                   THEN /\ ResolveListAndDelete
                        /\ UNCHANGED <<chains, requests, submitted>>
                   ELSE IF versioningEnabled
                          THEN /\ chains' = StartChains(data.Contents)
                               /\ requests' =
                                    Sent("ListObjectVersions", Cardinality(data.Contents))
                               /\ ebPc' = "deleteVersionedObjects"
                               /\ UNCHANGED <<ebResult, submitted>>
                          ELSE /\ requests' = Sent("DeleteObjects", 1)
                               /\ submitted' =
                                    submitted \cup { <<k, 0>> : k \in data.Contents }
                               /\ ebPc' = "DeleteObjects"
                               /\ UNCHANGED <<ebResult, chains>>
  /\ UNCHANGED <<bucket, remaining, versioningEnabled, token, callVars, clockVars, iotVars, cwVars>>

\* deleteObjects(bucketName, keys).then(...) inside the then() of listObjects:
\* its promise is not returned and has no catch
DeleteObjectsDoneChained ==
  /\ ebPc = "DeleteObjects"
  /\ \E err \in S3Answers(bucket) :
       IF err # None
         THEN /\ s3Err' = err
              /\ unhandled' = TRUE
              /\ ebPc' = "abandoned"
              /\ UNCHANGED <<remaining, token, requests, ebResult>>
         ELSE /\ remaining' =
                   DeleteObjectsEffect(remaining, { <<k, 0>> : k \in page.Contents })
              /\ ThenAfterDelete(requests)
              /\ UNCHANGED <<s3Err, unhandled>>
  /\ UNCHANGED <<bucket, versioningEnabled, page, chains, submitted,
                  callVars, clockVars, iotVars, cwVars>>

\* deleteVersionedObjects(bucketName, keys).then(...): all its listAndDelete
\* promises resolved
AfterChainsChained(cs, reqs) ==
  IF ebPc = "deleteVersionedObjects" /\ AllChains(cs) = "fulfilled"
    THEN ThenAfterDelete(reqs)
    ELSE /\ requests' = reqs
         /\ UNCHANGED <<ebPc, ebResult, token>>

\* resolve() of a listAndDelete(key, continuationToken): the promise in
\* Promise.all is the one of the call without markers
ResolveChain(k) ==
  [chains EXCEPT ![k].pc = IF chains[k].nested THEN "stuck" ELSE "fulfilled"]

\* listObjectVersions(...).then(...).catch(err => reject(err))
ListObjectVersionsDoneChained ==
  /\ \E k \in DOMAIN chains, err \in S3Answers(bucket) :
       /\ chains[k].pc = "ListObjectVersions"
       /\ IF err # None
            THEN /\ s3Err' = err
                 /\ chains' = [chains EXCEPT
                                 ![k].pc = IF chains[k].nested THEN "stuck" ELSE "rejected"]
                 /\ unhandled' =
                      (unhandled \/ chains[k].nested \/ ebPc = "deleteVersionedObjects")
                 /\ ebPc' = IF ~chains[k].nested /\ ebPc = "deleteVersionedObjects"
                              THEN "abandoned" ELSE ebPc
                 /\ UNCHANGED <<requests, submitted, token, ebResult>>
            ELSE LET data == ListObjectVersionsData(remaining, bucket, k,
                                                    chains[k].data.NextKeyMarker,
                                                    chains[k].data.NextVersionIdMarker)
                 IN  /\ UNCHANGED <<s3Err, unhandled>>
                     /\ IF data.Versions # {}
                          THEN /\ chains' = [chains EXCEPT ![k].pc = "DeleteObjects",
                                                            ![k].data = data]
                               /\ requests' = Sent("DeleteObjects", 1)
                               /\ submitted' = submitted \cup data.Versions
                               /\ UNCHANGED <<ebPc, ebResult, token>>
                          ELSE /\ chains' = ResolveChain(k)
                               /\ AfterChainsChained(chains', requests)
                               /\ UNCHANGED submitted
  /\ UNCHANGED <<bucket, remaining, versioningEnabled, page, callVars, clockVars, iotVars, cwVars>>

\* deleteObjects(bucketName, keys).then(...) inside the then() of
\* listObjectVersions: its promise is not returned and has no catch
DeleteVersionsDoneChained ==
  /\ \E k \in DOMAIN chains, err \in S3Answers(bucket) :
       /\ chains[k].pc = "DeleteObjects"
       /\ IF err # None
            THEN /\ s3Err' = err
                 /\ chains' = [chains EXCEPT ![k].pc = "stuck"]
                 /\ unhandled' = TRUE
                 /\ UNCHANGED <<remaining, requests, token, ebPc, ebResult>>
            ELSE /\ remaining' = DeleteObjectsEffect(remaining, chains[k].data.Versions)
                 /\ UNCHANGED <<s3Err, unhandled>>
                 /\ IF chains[k].data.NextKeyMarker # 0
                      THEN /\ chains' = [chains EXCEPT ![k].pc = "ListObjectVersions",
                                                        ![k].nested = TRUE]
                           /\ requests' = Sent("ListObjectVersions", 1)
                           /\ UNCHANGED <<ebPc, ebResult, token>>
                      ELSE /\ chains' = ResolveChain(k)
                           /\ AfterChainsChained(chains', requests)
  /\ UNCHANGED <<bucket, versioningEnabled, page, submitted, callVars, clockVars, iotVars, cwVars>>

NextEmptyBucketChained ==
  \/ EmptyBucketStart
  \/ GetBucketVersioningDoneChained
  \/ ListObjectsDoneChained
  \/ DeleteObjectsDoneChained
  \/ ListObjectVersionsDoneChained
  \/ DeleteVersionsDoneChained

SpecEmptyBucketChained == InitEmptyBucket /\ [][NextEmptyBucketChained]_vars
\* ... where every S3 call completes: a step is taken while one is possible
LiveEmptyBucketChained ==
  SpecEmptyBucketChained /\ WF_vars(NextEmptyBucketChained)
(***************************************************************************)
(* iot.updateIoTPolicies                                                   *)
(***************************************************************************)
IotReq(op, policyName, versionId) ==
  [op |-> op, policyName |-> policyName, policyVersionId |-> versionId]

\* the policy versions _removeOldPolicyVersions deletes, of the ones listed
OldVersionsAll(policyVersions) == policyVersions
OldVersions(policyVersions) == { v \in policyVersions : ~v.isDefaultVersion }

\* the answer to ListPolicyVersions
PolicyVersions(policy) ==
  { [versionId |-> v, isDefaultVersion |-> (v = policy.default)] : v \in policy.versions }

\* CreatePolicyVersion with setAsDefault: the next version, made the default
CreatePolicyVersionEffect(policy) ==
  LET v == Max(policy.versions \cup {policy.default}) + 1
  IN  [versions |-> policy.versions \cup {v}, default |-> v]

\* Promise.all(promises) of updateIoTPolicies once the promises are cs, err
\* being the reason of the one that was rejected just now
IotAll(cs, err) ==
  IF iotResult.state # "pending" THEN iotResult
  ELSE IF err # None THEN [state |-> "rejected", value |-> NoChains, err |-> err]
  ELSE IF \A k \in DOMAIN cs : cs[k].promise = "fulfilled"
    THEN [state |-> "resolved", value |-> [k \in DOMAIN cs |-> cs[k].value], err |-> None]
    ELSE iotResult

UpdateIoTPoliciesStart ==
  /\ iotResult.state = "pending"
  /\ DOMAIN iotChains = {}
  /\ \E so \in StackOutputs, n \in 1..MaxPolicyVersions :
       \E d \in 1..n :
         LET templates == { k \in so : IncludesIoTPolicyTemplate(k) }
             cs == [k \in templates |->
                      [pc |-> "GetPolicy", promise |-> "pending", value |-> "none",
                       policyToUpdate |-> None, listed |-> {}, pending |-> {}]]
         IN  /\ stackOutput' = so
             /\ policies' = [p \in { ReplaceTemplate(k) : k \in templates } |->
                               [versions |-> 1..n, default |-> d]]
             /\ iotChains' = cs
             /\ iotRequests' = { IotReq("GetPolicy", k, 0) : k \in templates }
             /\ iotResult' = IotAll(cs, None)
  /\ UNCHANGED <<iotUnhandled, callVars, clockVars, s3Vars, cwVars>>

\* a promise of updatePolicy(k) is rejected: Promise.all rejects with it
UpdatePolicyThrew(k, err) ==
  LET cs == [iotChains EXCEPT ![k].pc = "stopped", ![k].promise = "rejected"]
  IN  /\ iotChains' = cs
      /\ iotResult' = IotAll(cs, err)
      /\ UNCHANGED <<policies, iotRequests>>

\* _removeOldPolicyVersions is called with the policy named by the key
\* without 'Template'
GetPolicyDone ==
  /\ \E k \in DOMAIN iotChains, ans \in IotAnswers :
       /\ iotChains[k].pc = "GetPolicy"
       /\ IF ans # None
            THEN UpdatePolicyThrew(k, ans)
            ELSE /\ iotChains' = [iotChains EXCEPT ![k].pc = "ListPolicyVersions",
                                    ![k].policyToUpdate = ReplaceTemplate(k)]
                 /\ iotRequests' = iotRequests \cup
                      { IotReq("ListPolicyVersions", ReplaceTemplate(k), 0) }
                 /\ UNCHANGED <<policies, iotResult>>
  /\ UNCHANGED <<stackOutput, iotUnhandled, callVars, clockVars, s3Vars, cwVars>>

\* what follows _removeOldPolicyVersions: CreatePolicyVersion is sent
SendCreatePolicyVersion(k, cs) ==
  /\ iotChains' = [cs EXCEPT ![k].pc = "CreatePolicyVersion"]
  /\ iotRequests' = iotRequests \cup
       { IotReq("CreatePolicyVersion", cs[k].policyToUpdate, 0) }

ListPolicyVersionsDone ==
  /\ \E k \in DOMAIN iotChains, ans \in IotAnswers :
       /\ iotChains[k].pc = "ListPolicyVersions"
       /\ IF ans # None
            THEN UpdatePolicyThrew(k, ans)
            ELSE LET p == iotChains[k].policyToUpdate
                     policyVersions == PolicyVersions(policies[p])
                     old == { v.versionId : v \in OldVersions(policyVersions) }
                     cs == [iotChains EXCEPT ![k].listed = policyVersions]
                 IN  /\ IF Cardinality(policyVersions) > 1
                          THEN /\ iotChains' = [cs EXCEPT ![k].pc = "DeletePolicyVersion",
                                                  ![k].pending = old]
                               /\ iotRequests' = iotRequests \cup
                                    { IotReq("DeletePolicyVersion", p, v) : v \in old }
                          ELSE SendCreatePolicyVersion(k, cs)
                     /\ UNCHANGED <<policies, iotResult>>
  /\ UNCHANGED <<stackOutput, iotUnhandled, callVars, clockVars, s3Vars, cwVars>>

\* one DeletePolicyVersion is answered; the others of its Promise.all are
\* still on their way, whatever became of the promise
DeletePolicyVersionDone ==
  /\ \E k \in DOMAIN iotChains, ans \in IotAnswers :
       \E v \in iotChains[k].pending :
         LET p == iotChains[k].policyToUpdate
             cs == [iotChains EXCEPT ![k].pending = @ \ {v}]
         IN  IF ans # None
               THEN /\ UNCHANGED policies
                    /\ IF iotChains[k].pc = "DeletePolicyVersion"
                         THEN /\ iotChains' = [cs EXCEPT ![k].pc = "stopped",
                                                 ![k].promise = "rejected"]
                              /\ iotResult' = IotAll(iotChains', ans)
                              /\ UNCHANGED iotRequests
                         ELSE /\ iotChains' = cs
                              /\ UNCHANGED <<iotResult, iotRequests>>
               ELSE /\ policies' = [policies EXCEPT ![p].versions = @ \ {v}]
                    /\ UNCHANGED iotResult
                    /\ IF iotChains[k].pc = "DeletePolicyVersion" /\ cs[k].pending = {}
                         THEN SendCreatePolicyVersion(k, cs)
                         ELSE /\ iotChains' = cs
                              /\ UNCHANGED iotRequests
  /\ UNCHANGED <<stackOutput, iotUnhandled, callVars, clockVars, s3Vars, cwVars>>

CreatePolicyVersionDone ==
  /\ \E k \in DOMAIN iotChains, ans \in IotAnswers :
       /\ iotChains[k].pc = "CreatePolicyVersion"
       /\ IF ans # None
            THEN UpdatePolicyThrew(k, ans)
            ELSE LET p == iotChains[k].policyToUpdate
                     cs == [iotChains EXCEPT ![k].pc = "done", ![k].promise = "fulfilled",
                              ![k].value = "CreatePolicyVersionCommandOutput"]
                 IN  /\ policies' = [policies EXCEPT ![p] = CreatePolicyVersionEffect(@)]
                     /\ iotChains' = cs
                     /\ iotResult' = IotAll(cs, None)
                     /\ UNCHANGED iotRequests
  /\ UNCHANGED <<stackOutput, iotUnhandled, callVars, clockVars, s3Vars, cwVars>>

NextUpdateIoTPolicies ==
  \/ UpdateIoTPoliciesStart
  \/ GetPolicyDone
  \/ ListPolicyVersionsDone
  \/ DeletePolicyVersionDone
  \/ CreatePolicyVersionDone

SpecUpdateIoTPolicies == InitEmptyBucket /\ [][NextUpdateIoTPolicies]_vars

(***************************************************************************)
(* iot.updateIoTPolicies written with promise chains (src/iot.js)           *)
(***************************************************************************)
\* a promise no handler is attached to is rejected: the chain of key k ends
AbandonPolicy(k, cs) ==
  /\ iotChains' = [cs EXCEPT ![k].pc = "stopped"]
  /\ iotUnhandled' = TRUE
  /\ UNCHANGED <<policies, iotRequests, iotResult>>

\* the callback of GetPolicy calls _removeOldPolicyVersions and returns
\* nothing: the promise pushed for the key is fulfilled with undefined
GetPolicyDoneChained ==
  /\ \E k \in DOMAIN iotChains, ans \in IotAnswers :
       /\ iotChains[k].pc = "GetPolicy"
       /\ IF ans # None
            THEN /\ UpdatePolicyThrew(k, ans)
                 /\ UNCHANGED iotUnhandled
            ELSE LET cs == [iotChains EXCEPT ![k].pc = "ListPolicyVersions",
                              ![k].policyToUpdate = ReplaceTemplate(k),
                              ![k].promise = "fulfilled", ![k].value = "undefined"]
                 IN  /\ iotChains' = cs
                     /\ iotRequests' = iotRequests \cup
                          { IotReq("ListPolicyVersions", ReplaceTemplate(k), 0) }
                     /\ iotResult' = IotAll(cs, None)
                     /\ UNCHANGED <<policies, iotUnhandled>>
  /\ UNCHANGED <<stackOutput, callVars, clockVars, s3Vars, cwVars>>

ListPolicyVersionsDoneChained ==
  /\ \E k \in DOMAIN iotChains, ans \in IotAnswers :
       /\ iotChains[k].pc = "ListPolicyVersions"
       /\ IF ans # None
            THEN AbandonPolicy(k, iotChains)
            ELSE LET p == iotChains[k].policyToUpdate
                     policyVersions == PolicyVersions(policies[p])
                     old == { v.versionId : v \in OldVersions(policyVersions) }
                     cs == [iotChains EXCEPT ![k].listed = policyVersions]
                 IN  /\ IF Cardinality(policyVersions) > 1
                          THEN /\ iotChains' = [cs EXCEPT ![k].pc = "DeletePolicyVersion",
                                                  ![k].pending = old]
                               /\ iotRequests' = iotRequests \cup
                                    { IotReq("DeletePolicyVersion", p, v) : v \in old }
                          ELSE SendCreatePolicyVersion(k, cs)
                     /\ UNCHANGED <<policies, iotResult, iotUnhandled>>
  /\ UNCHANGED <<stackOutput, callVars, clockVars, s3Vars, cwVars>>

DeletePolicyVersionDoneChained ==
  /\ \E k \in DOMAIN iotChains, ans \in IotAnswers :
       \E v \in iotChains[k].pending :
         LET p == iotChains[k].policyToUpdate
             cs == [iotChains EXCEPT ![k].pending = @ \ {v}]
         IN  IF ans # None
               THEN IF iotChains[k].pc = "DeletePolicyVersion"
                      THEN AbandonPolicy(k, cs)
                      ELSE /\ iotChains' = cs
                           /\ UNCHANGED <<policies, iotResult, iotRequests, iotUnhandled>>
               ELSE /\ policies' = [policies EXCEPT ![p].versions = @ \ {v}]
                    /\ UNCHANGED <<iotResult, iotUnhandled>>
                    /\ IF iotChains[k].pc = "DeletePolicyVersion" /\ cs[k].pending = {}
                         THEN SendCreatePolicyVersion(k, cs)
                         ELSE /\ iotChains' = cs
                              /\ UNCHANGED iotRequests
  /\ UNCHANGED <<stackOutput, callVars, clockVars, s3Vars, cwVars>>

\* nothing waits for the answer to CreatePolicyVersion
CreatePolicyVersionDoneChained ==
  /\ \E k \in DOMAIN iotChains, ans \in IotAnswers :
       /\ iotChains[k].pc = "CreatePolicyVersion"
       /\ IF ans # None
            THEN AbandonPolicy(k, iotChains)
            ELSE LET p == iotChains[k].policyToUpdate
                 IN  /\ policies' = [policies EXCEPT ![p] = CreatePolicyVersionEffect(@)]
                     /\ iotChains' = [iotChains EXCEPT ![k].pc = "done"]
                     /\ UNCHANGED <<iotRequests, iotResult, iotUnhandled>>
  /\ UNCHANGED <<stackOutput, callVars, clockVars, s3Vars, cwVars>>

NextUpdateIoTPoliciesChained ==
  \/ UpdateIoTPoliciesStart
  \/ GetPolicyDoneChained
  \/ ListPolicyVersionsDoneChained
  \/ DeletePolicyVersionDoneChained
  \/ CreatePolicyVersionDoneChained

SpecUpdateIoTPoliciesChained == InitEmptyBucket /\ [][NextUpdateIoTPoliciesChained]_vars

(***************************************************************************)
(* cloudWatch.deleteLogGroups                                              *)
(***************************************************************************)
\* the first size groups of avail, in the order of the listing
FirstGroups(avail, size) ==
  { g \in avail : Cardinality({ h \in avail : h < g }) < size }

\* DescribeLogGroups with nextToken tok: a page of up to size groups after tok
\* and, when more follow, the nextToken that continues after the page
DescribeLogGroupsData(groups, tok, size) ==
  LET avail == { g \in groups : g > tok }
      pg == FirstGroups(avail, size)
  IN  [logGroups |-> pg, nextToken |-> IF avail \ pg # {} THEN Max(pg) ELSE 0]

\* listAndDelete after the page and its deletions: on with nextToken, or done
AfterPageStop(nextToken) ==
  /\ cwPc' = "done"
  /\ cwResult' = EbResolved
  /\ UNCHANGED <<cwToken, cwRequests>>
AfterPage(nextToken) ==
  IF nextToken # 0
    THEN /\ cwPc' = "DescribeLogGroups"
         /\ cwToken' = nextToken
         /\ cwRequests' = [cwRequests EXCEPT !["DescribeLogGroups"] = @ + 1]
         /\ UNCHANGED cwResult
    ELSE /\ cwPc' = "done"
         /\ cwResult' = EbResolved
         /\ UNCHANGED <<cwToken, cwRequests>>

\* listAndDelete throws: deleteLogGroups rejects
ListAndDeleteThrew(err) ==
  /\ cwPc' = "done"
  /\ cwResult' = EbRejected(err)
  /\ UNCHANGED <<cwToken, cwRequests>>

DeleteLogGroupsStart ==
  /\ cwPc = "idle"
  /\ \E n \in 0..MaxLogGroups :
       /\ logGroups' = 1..n
       /\ cwCount' = n
  /\ cwPc' = "DescribeLogGroups"
  /\ cwRequests' = [cwRequests EXCEPT !["DescribeLogGroups"] = @ + 1]
  /\ UNCHANGED <<cwToken, cwPage, cwDeleted, cwResult, callVars, clockVars, s3Vars,
                 iotVars>>

DescribeLogGroupsDone ==
  /\ cwPc = "DescribeLogGroups"
  /\ \E ans \in CwAnswers, size \in 1..MaxGroupsPerPage :
       IF ans # None
         THEN /\ ListAndDeleteThrew(ans)
              /\ UNCHANGED <<cwPage, cwDeleted>>
         ELSE LET data == DescribeLogGroupsData(logGroups, cwToken, size)
              IN  IF data.logGroups # {}
                    THEN /\ cwPage' = [g \in data.logGroups |-> "pending"]
                         /\ cwDeleted' = cwDeleted \cup data.logGroups
                         /\ cwRequests' = [cwRequests EXCEPT !["DeleteLogGroup"] =
                                             @ + Cardinality(data.logGroups)]
                         /\ cwPc' = "DeleteLogGroup"
                         /\ cwToken' = data.nextToken
                         /\ UNCHANGED cwResult
                    ELSE /\ AfterPage(data.nextToken)
                         /\ UNCHANGED <<cwPage, cwDeleted>>
  /\ UNCHANGED <<logGroups, cwCount, callVars, clockVars, s3Vars, iotVars>>

\* one deleteLogGroup of the page is answered; the others of its Promise.all
\* are still on their way, whatever became of listAndDelete
DeleteLogGroupDone ==
  /\ \E g \in { h \in DOMAIN cwPage : cwPage[h] = "pending" }, ans \in CwAnswers :
       IF ans # None
         THEN /\ cwPage' = [cwPage EXCEPT ![g] = "failed"]
              /\ UNCHANGED logGroups
              /\ IF cwPc = "DeleteLogGroup"
                   THEN ListAndDeleteThrew(ans)
                   ELSE UNCHANGED <<cwPc, cwResult, cwToken, cwRequests>>
         ELSE /\ cwPage' = [cwPage EXCEPT ![g] = "deleted"]
              /\ logGroups' = logGroups \ {g}
              /\ IF cwPc = "DeleteLogGroup"
                      /\ \A h \in DOMAIN cwPage \ {g} : cwPage[h] = "deleted"
                   THEN AfterPage(cwToken)
                   ELSE UNCHANGED <<cwPc, cwResult, cwToken, cwRequests>>
  /\ UNCHANGED <<cwCount, cwDeleted, callVars, clockVars, s3Vars, iotVars>>

NextDeleteLogGroups ==
  \/ DeleteLogGroupsStart
  \/ DescribeLogGroupsDone
  \/ DeleteLogGroupDone

SpecDeleteLogGroups == InitEmptyBucket /\ [][NextDeleteLogGroups]_vars

(***************************************************************************)
(* Properties                                                              *)
(***************************************************************************)
\* positions of the requests named o in the log
Idx(o) == { i \in 1..Len(log) : log[i].op = o }
Issued(o) == Idx(o) # {}

InProgress(st) == Len(st) >= 2 /\ st[Len(st)] = "PROGRESS"

\* the templates of Templates that carry the serverless-transform marker
MarkedTemplates ==
  { <<"X", "T", "C", "W", "A", "X">>,
    <<"Q", "T", "Q", "W", "C", "W", "W", "Q", "A", "X">> }

\* every ExecuteChangeSet in the log executes an auto-named change set that
\* a CreateChangeSet of the given type created before
ExecutesOnly(type) ==
  \A j \in Idx("ExecuteChangeSet") :
    \E i \in 1..(j - 1) :
      /\ log[i].op = "CreateChangeSet"
      /\ log[i].ChangeSetType = type
      /\ log[i].ChangeSetName = log[j].ChangeSetName
      /\ log[i].ChangeSetName[1] = "cf-utils-cloudformation-upsert-stack-"

----------------------------------------------------------------------------
C1_NotPresent ==
  call.fn = "upsertStack" /\ first = StackErr(<<"Stack with id", "does not exist">>)

\* C1: when the first DescribeStacks of upsertStack reports that the stack
\* does not exist, the request issued next is CreateStack or a CreateChangeSet
\* of type CREATE, only that change set is ever executed, and no UpdateStack
\* and no change set of another type is issued.
C1_CreatePath ==
  C1_NotPresent =>
    /\ Len(log) >= 2
    /\ \E d \in Idx("DescribeStacks") :
         /\ \A e \in Idx("DescribeStacks") : d <= e
         /\ \/ log[d + 1].op = "CreateStack"
            \/ log[d + 1].op = "CreateChangeSet" /\ log[d + 1].ChangeSetType = "CREATE"
    /\ ~Issued("UpdateStack")
    /\ \A i \in Idx("CreateChangeSet") : log[i].ChangeSetType = "CREATE"
    /\ ExecutesOnly("CREATE")
    /\ ~(Issued("CreateStack") /\ Issued("CreateChangeSet"))

C1_Witness ==
  /\ C1_NotPresent
  /\ pc = "done"
  /\ Issued("ExecuteChangeSet")
  /\ result = StackData(<<"CREATE", "COMPLETE">>)

----------------------------------------------------------------------------
C2_Marked ==
  /\ call.fn = "upsertStack"
  /\ call.script.kind = "local"
  /\ call.script.exists
  /\ call.script.body \in MarkedTemplates

\* C2 (as stated): on a template that contains the serverless-transform
\* marker, upsertStack issues neither CreateStack nor UpdateStack.
C2_AlwaysChangeSet ==
  C2_Marked => ~Issued("CreateStack") /\ ~Issued("UpdateStack")

\* C2 (amended): on a template that contains the marker, unless
\* options.containsTransforms overrides the detection with false, upsertStack
\* issues neither CreateStack nor UpdateStack, and what it executes is an
\* auto-named change set it created, of type CREATE when the stack was not
\* found and of type UPDATE when it was found.
C2_ChangeSetUnlessOverridden ==
  (C2_Marked /\ call.options.containsTransforms # "false") =>
    /\ ~Issued("CreateStack")
    /\ ~Issued("UpdateStack")
    /\ first = StackErr(<<"Stack with id", "does not exist">>) => ExecutesOnly("CREATE")
    /\ first.ok => ExecutesOnly("UPDATE")
    /\ (pc = "done" /\ Issued("DeleteChangeSet") /\ performUpdate /\ result.kind = "stack")
         => Issued("ExecuteChangeSet")

C2_Witness ==
  /\ C2_Marked
  /\ call.options.containsTransforms = "absent"
  /\ call.options.review = "true"
  /\ first.ok
  /\ pc = "done"
  /\ Issued("ExecuteChangeSet")
  /\ result = StackData(<<"UPDATE", "COMPLETE">>)

----------------------------------------------------------------------------
\* C3: when upsertStack has settled, every change set it created (every
\* CreateChangeSet that succeeded) was executed or deleted by a later
\* ExecuteChangeSet or DeleteChangeSet of the same name.
C3_EveryChangeSetExecutedOrDeleted ==
  (call.fn = "upsertStack" /\ pc = "done") =>
    \A i \in Idx("CreateChangeSet") :
      i < Len(log) =>
        \E j \in (i + 1)..Len(log) :
          /\ log[j].op \in { "ExecuteChangeSet", "DeleteChangeSet" }
          /\ log[j].ChangeSetName = log[i].ChangeSetName

----------------------------------------------------------------------------
\* the reviewer answered the prompt and declined
C4_Declined ==
  /\ call.fn = "upsertStack"
  /\ ~performUpdate
  /\ \E k \in Idx("prompt") : k < Len(log)

\* C4: when the reviewer declines, the stack was found; the change set
\* cf-utils-<stackName>-preview was created and described until the describe
\* right before the prompt; the request after the prompt deletes it; no
\* CreateStack, UpdateStack or ExecuteChangeSet is ever issued; the call ends
\* rejected, and with 'Reviewer rejected stack update' whenever the poll that
\* follows the deletion returned.
C4_ReviewerRejects ==
  C4_Declined =>
    LET k == CHOOSE k \in Idx("prompt") : TRUE
        preview == <<"cf-utils-", call.name, "-preview">>
    IN  /\ first.ok
        /\ Cardinality(Idx("prompt")) = 1
        /\ \E i \in 1..(k - 2) :
             /\ log[i].op = "CreateChangeSet"
             /\ log[i].ChangeSetName = preview
             /\ log[i].StackName = call.name
             /\ \A j \in (i + 1)..(k - 1) :
                  \/ log[j].op = "setTimeout"
                  \/ log[j].op = "DescribeChangeSet" /\ log[j].ChangeSetName = preview
        /\ log[k - 1].op = "DescribeChangeSet"
        /\ log[k + 1].op = "DeleteChangeSet"
        /\ log[k + 1].ChangeSetName = preview
        /\ log[k + 1].StackName = call.name
        /\ ~Issued("CreateStack")
        /\ ~Issued("UpdateStack")
        /\ ~Issued("ExecuteChangeSet")
        /\ pc = "done" => result.state = "rejected"
        /\ (pc = "done" /\ lastCs # NoCs /\ PollChangeSetOutcome(lastCs).state = "resolved")
             => result = Rejected(<<"Reviewer rejected stack update">>)

C4_Witness ==
  /\ C4_Declined
  /\ pc = "done"
  /\ Issued("DeleteChangeSet")
  /\ lastCs = CsOk(<<"DELETE", "COMPLETE">>, None)
  /\ result = Rejected(<<"Reviewer rejected stack update">>)

----------------------------------------------------------------------------
\* positions of the described outputs whose key ends with Bucket
BucketLike ==
  { i \in 1..Len(outputs.list) :
      outputs.list[i].OutputKey[Len(outputs.list[i].OutputKey)] = "Bucket" }

\* C5: once DeleteStack is in the log, an emptyBucket was issued before it
\* for every bucket-like output and every emptyBucket promise is fulfilled;
\* and once an emptyBucket promise is rejected, the call is rejected with
\* that error and DeleteStack is never issued.
C5_DeleteAfterBucketsEmptied ==
  /\ Issued("DeleteStack") =>
       LET d == CHOOSE d \in Idx("DeleteStack") : TRUE IN
       /\ \A i \in BucketLike :
            \E j \in 1..(d - 1) :
              /\ log[j].op = "emptyBucket"
              /\ log[j].Bucket = outputs.list[i].OutputValue
       /\ Len(s3Operations) = Cardinality(BucketLike)
       /\ \A j \in 1..Len(s3Operations) : s3Operations[j].state = "fulfilled"
  /\ (\E j \in 1..Len(s3Operations) : s3Operations[j].state = "rejected") =>
       /\ ~Issued("DeleteStack")
       /\ pc = "done"
       /\ result = Rejected(ErrOther)

C5_Witness ==
  /\ call.fn = "deleteStack"
  /\ Len(s3Operations) = 2
  /\ Issued("DeleteStack")
  /\ pc = "done"
  /\ result = Undefined

----------------------------------------------------------------------------
C6_Absent ==
  call.fn = "deleteStack" /\ first = StackErr(<<"Stack with id", "does not exist">>)

\* C6: deleteStack on a stack that does not exist has resolved, with nothing,
\* having issued its one DescribeStacks and nothing else: no emptyBucket, no
\* DeleteStack, no poll.
C6_DeleteIdempotent ==
  C6_Absent =>
    /\ pc = "done"
    /\ result = Undefined
    /\ log = <<Req("DescribeStacks", call.name)>>
    /\ s3Operations = <<>>
    /\ observed = 0

C6_Witness == C6_Absent /\ pc = "done" /\ result.state = "resolved"

----------------------------------------------------------------------------
\* C7: when deleteStack has resolved after issuing DeleteStack, the last
\* DescribeStacks response its poll handled was 'does not exist'.
C7_ResolvesOnlyOnNotFound ==
  (call.fn = "deleteStack" /\ pc = "done" /\ result.state = "resolved"
     /\ Issued("DeleteStack"))
    => lastStack = StackErr(<<"Stack with id", "does not exist">>)

----------------------------------------------------------------------------
\* C8: pollStack has issued one DescribeStacks per response it handled (plus
\* the one it awaits); each DescribeStacks that is not the last request is
\* followed by a timer of the poll interval and each timer by a
\* DescribeStacks; while the last status seen is an in-progress status the
\* promise is pending; and when it has resolved, the last response was a
\* terminal one (CREATE_COMPLETE, UPDATE_COMPLETE, or 'does not exist').
C8_OneDescribePerStatus ==
  call.fn = "pollStack" =>
    /\ Cardinality(Idx("DescribeStacks")) = observed + (IF pc = "pollStack" THEN 1 ELSE 0)
    /\ \A i \in 1..(Len(log) - 1) :
         /\ log[i].op = "DescribeStacks" =>
              log[i + 1].op = "setTimeout" /\ log[i + 1].Delay = 5000
         /\ log[i].op = "setTimeout" => log[i + 1].op = "DescribeStacks"
    /\ (lastStack.ok /\ InProgress(lastStack.status)) =>
         /\ result.state = "pending"
         /\ pc \in { "timerStack", "pollStack" }
         /\ Cardinality(Idx("setTimeout")) = observed
    /\ result.state = "resolved" =>
         \/ lastStack = StackErr(<<"Stack with id", "does not exist">>)
         \/ lastStack.ok /\ lastStack.status \in { <<"CREATE", "COMPLETE">>,
                                                  <<"UPDATE", "COMPLETE">> }

C8_Witness ==
  /\ call.fn = "pollStack"
  /\ pc = "done"
  /\ observed = 3
  /\ Cardinality(Idx("DescribeStacks")) = 3
  /\ result = StackData(<<"CREATE", "COMPLETE">>)

----------------------------------------------------------------------------
\* C9: when the last status pollStack saw is ROLLBACK_COMPLETE,
\* UPDATE_ROLLBACK_COMPLETE or ends in _FAILED, pollStack has rejected with
\* 'Stack operation failed' (and so describes no more).
C9_FailureStatusesReject ==
  (call.fn = "pollStack" /\ lastStack.ok
     /\ \/ lastStack.status \in { <<"ROLLBACK", "COMPLETE">>,
                                  <<"UPDATE", "ROLLBACK", "COMPLETE">> }
        \/ lastStack.status[Len(lastStack.status)] = "FAILED")
    => pc = "done" /\ result = Rejected(<<"Stack operation failed">>)

----------------------------------------------------------------------------
\* C10: when the last status pollStack saw is a non-rollback *_COMPLETE status
\* of a creation, update or import, pollStack has resolved with the described
\* stack.
C10_CompleteStatusesResolve ==
  (call.fn = "pollStack" /\ lastStack.ok
     /\ lastStack.status[Len(lastStack.status)] = "COMPLETE"
     /\ "ROLLBACK" \notin Range(lastStack.status)
     /\ lastStack.status[1] \in { "CREATE", "UPDATE", "IMPORT" })
    => pc = "done" /\ result = StackData(lastStack.status)

----------------------------------------------------------------------------
\* C11: when the last DescribeChangeSet response pollChangeSet handled has
\* status FAILED and carries a status reason, the poll has settled: resolved
\* with nothing (no rejection) if the reason contains 'No updates are to be
\* performed' or 'didn't contain changes', rejected with 'Changeset creation
\* failed' for any other reason.  (createChangeSet and deleteChangeSet return
\* what their pollChangeSet returns.)
C11_FailedReason ==
  call.fn \in { "pollChangeSet", "createChangeSet", "deleteChangeSet" }
    /\ lastCs.ok /\ lastCs.status = <<"FAILED">> /\ lastCs.reason # <<>>

C11_FailedNoChangesResolves ==
  C11_FailedReason =>
    /\ pc = "done"
    /\ log[Len(log)].op = "DescribeChangeSet"
    /\ IF \/ "No updates are to be performed" \in Range(lastCs.reason)
          \/ "didn't contain changes" \in Range(lastCs.reason)
         THEN result = [state |-> "resolved", kind |-> "undefined", status |-> <<>>,
                        msg |-> <<>>]
         ELSE result = [state |-> "rejected", kind |-> "error", status |-> <<>>,
                        msg |-> <<"Changeset creation failed">>]

C11_Witness ==
  /\ call.fn = "pollChangeSet"
  /\ pc = "done"
  /\ waits >= 1
  /\ lastCs = CsOk(<<"FAILED">>, ReasonNoChanges)
  /\ result.state = "resolved"

----------------------------------------------------------------------------
\* C12: pollChangeSet has resolved with a change set exactly when the last
\* status it saw is CREATE_COMPLETE, UPDATE_COMPLETE or DELETE_COMPLETE, and
\* the value is that change set; it has settled on a described status only if
\* the status is one of these three or FAILED; on any other status it has set
\* the 5000 ms timer, after which it issues exactly one more DescribeChangeSet.
C12_SuccessTerminals ==
  { <<"CREATE", "COMPLETE">>, <<"UPDATE", "COMPLETE">>, <<"DELETE", "COMPLETE">> }

C12_ResolvesOnCompleteOnly ==
  call.fn \in { "pollChangeSet", "createChangeSet", "deleteChangeSet" } =>
    /\ result.kind = "changeset" <=>
         (lastCs.ok /\ lastCs.status \in C12_SuccessTerminals)
    /\ result.kind = "changeset" => pc = "done"
    /\ result.kind = "changeset" =>
         result = [state |-> "resolved", kind |-> "changeset",
                   status |-> lastCs.status, msg |-> <<>>]
    /\ (pc = "done" /\ lastCs.ok) =>
         lastCs.status \in C12_SuccessTerminals \cup { <<"FAILED">> }
    /\ (lastCs.ok /\ lastCs.status \notin C12_SuccessTerminals \cup { <<"FAILED">> }) =>
         /\ result.state = "pending"
         /\ pc \in { "timerChangeSet", "pollChangeSet" }
         /\ Cardinality(Idx("setTimeout")) = waits
    /\ Cardinality(Idx("DescribeChangeSet")) =
         Cardinality(Idx("setTimeout"))
           + (IF pc \in { "timerChangeSet", "start", "CreateChangeSet", "DeleteChangeSet" }
                   \/ (pc = "done" /\ submitErr # <<>>)
                THEN 0 ELSE 1)
    /\ \A i \in 1..(Len(log) - 1) :
         /\ log[i].op = "DescribeChangeSet" =>
              log[i + 1].op = "setTimeout" /\ log[i + 1].Delay = 5000
         /\ log[i].op = "setTimeout" => log[i + 1].op = "DescribeChangeSet"

C12_Witness ==
  /\ call.fn = "pollChangeSet"
  /\ pc = "done"
  /\ waits = 2
  /\ Cardinality(Idx("DescribeChangeSet")) = 3
  /\ result = CsData(<<"DELETE", "COMPLETE">>)

----------------------------------------------------------------------------
\* C13: when the last describe of pollStack or pollChangeSet failed with an
\* error whose message does not say 'does not exist', the poll is over: the
\* call has rejected with that same error, and the failed describe is the last
\* request issued (no timer, no further describe), at whichever pass it
\* happened.
C13_OtherErrorsFatal ==
  call.fn \in { "pollStack", "pollChangeSet" } =>
    /\ (~lastStack.ok /\ lastStack.msg # <<>>
          /\ "does not exist" \notin Range(lastStack.msg)) =>
         /\ pc = "done"
         /\ result = [state |-> "rejected", kind |-> "error", status |-> <<>>,
                       msg |-> lastStack.msg]
         /\ log[Len(log)].op = "DescribeStacks"
    /\ (~lastCs.ok /\ lastCs.msg # <<>>
          /\ "does not exist" \notin Range(lastCs.msg)) =>
         /\ pc = "done"
         /\ result = [state |-> "rejected", kind |-> "error", status |-> <<>>,
                       msg |-> lastCs.msg]
         /\ log[Len(log)].op = "DescribeChangeSet"

C13_Witness ==
  /\ call.fn = "pollStack"
  /\ pc = "done"
  /\ waits = 2
  /\ lastStack = StackErr(<<"some other error">>)
  /\ result = Rejected(<<"some other error">>)

----------------------------------------------------------------------------
\* C14: a poll whose describe failed with 'does not exist' resolves the call
\* with nothing only when the submission it follows is a deletion
\* (DeleteStack, DeleteChangeSet); after CreateStack, UpdateStack,
\* ExecuteChangeSet or CreateChangeSet the call is rejected.
C14_LastSubmitted ==
  LET S == { i \in 1..Len(log) :
               log[i].op \in { "CreateStack", "UpdateStack", "CreateChangeSet",
                              "ExecuteChangeSet", "DeleteChangeSet", "DeleteStack" } }
  IN  IF S = {} THEN "" ELSE log[CHOOSE i \in S : \A j \in S : j <= i].op

C14_NotFoundFatalUnlessDeleting ==
  (/\ pc = "done"
   /\ C14_LastSubmitted # ""
   /\ \/ lastStack = StackErr(<<"Stack with id", "does not exist">>)
      \/ lastCs = CsErr(<<"Stack with id", "does not exist">>))
    => IF C14_LastSubmitted \in { "DeleteStack", "DeleteChangeSet" }
         THEN result = [state |-> "resolved", kind |-> "undefined", status |-> <<>>,
                        msg |-> <<>>]
         ELSE result.state = "rejected"

----------------------------------------------------------------------------
\* C15: pollStack and pollChangeSet give up on no pass: a poll that has
\* settled on a described status saw a terminal one (a status that is neither
\* *_IN_PROGRESS nor *_PENDING), however many timers went before; and the
\* poll ends once the provider reports a terminal status, a not-found or an
\* error: the pass that handled such a response settled the call.  (A terminal
\* status does not change by itself, so a poll that sets its timer on one
\* never ends.)
C15_NonTerminal(status) ==
  Len(status) > 0 /\ status[Len(status)] \in { "PROGRESS", "PENDING" }

C15_PollEndsOnTerminalOnly ==
  call.fn \in { "pollStack", "pollChangeSet" } =>
    /\ (pc = "done" /\ lastStack.ok) => ~C15_NonTerminal(lastStack.status)
    /\ (pc = "done" /\ lastCs.ok) => ~C15_NonTerminal(lastCs.status)
    /\ (lastStack.ok /\ C15_NonTerminal(lastStack.status)) =>
         pc \in { "timerStack", "pollStack" }
    /\ (lastCs.ok /\ C15_NonTerminal(lastCs.status)) =>
         pc \in { "timerChangeSet", "pollChangeSet" }
    /\ (lastStack.ok /\ ~C15_NonTerminal(lastStack.status)) => pc = "done"
    /\ (lastCs.ok /\ ~C15_NonTerminal(lastCs.status)) => pc = "done"
    /\ (~lastStack.ok /\ lastStack.msg # <<>>) => pc = "done"
    /\ (~lastCs.ok /\ lastCs.msg # <<>>) => pc = "done"

----------------------------------------------------------------------------
\* C16: in updateStack, when UpdateStack was answered with 'No updates are to
\* be performed', the call goes on to poll the stack (a DescribeStacks is
\* issued) and, once the poll has seen a terminal status, whatever it is, has
\* resolved with the stack as described; when UpdateStack was answered with
\* any other error the call has rejected with that error and has issued no
\* DescribeStacks.  The terminal statuses looked at are those of a stack the
\* provider accepts updates of.
C16_UpdatableStatuses ==
  { <<"CREATE", "COMPLETE">>, <<"UPDATE", "COMPLETE">>,
    <<"UPDATE", "ROLLBACK", "COMPLETE">> }

C16_NoUpdatesIsSuccess ==
  (call.fn = "updateStack" /\ submitErr # <<>>) =>
    IF "No updates are to be performed" \in Range(submitErr)
      THEN /\ Idx("DescribeStacks") # {}
           /\ (lastStack.ok /\ lastStack.status \in C16_UpdatableStatuses) =>
                /\ pc = "done"
                /\ result = [state |-> "resolved", kind |-> "stack",
                              status |-> lastStack.status, msg |-> <<>>]
      ELSE /\ pc = "done"
           /\ result = [state |-> "rejected", kind |-> "error", status |-> <<>>,
                         msg |-> submitErr]
           /\ Idx("DescribeStacks") = {}

----------------------------------------------------------------------------
\* C17: when upsertStack has ended after the poll of a change set of kind
\* CREATE or UPDATE returned the empty outcome (FAILED with one of the two
\* 'no changes' reasons), no ExecuteChangeSet was issued and the call has
\* resolved with a stack description.
C17_EmptyOutcome ==
  /\ call.fn = "upsertStack"
  /\ pc = "done"
  /\ lastCs.ok /\ lastCs.status = <<"FAILED">>
  /\ \/ "No updates are to be performed" \in Range(lastCs.reason)
     \/ "didn't contain changes" \in Range(lastCs.reason)
  /\ \E i \in Idx("CreateChangeSet") :
       /\ log[i].ChangeSetType \in { "CREATE", "UPDATE" }
       /\ \A j \in Idx("CreateChangeSet") : j <= i

C17_EmptyChangeSetReturnsStack ==
  C17_EmptyOutcome =>
    /\ Idx("ExecuteChangeSet") = {}
    /\ result.state = "resolved"
    /\ result.kind = "stack"

----------------------------------------------------------------------------
\* C18: on the change-set path of upsertStack, ExecuteChangeSet is issued at
\* most once; it is issued right after the DescribeChangeSet that reported a
\* success terminal (CREATE_COMPLETE, UPDATE_COMPLETE, DELETE_COMPLETE) of the
\* change set of kind CREATE or UPDATE it names, and such a report is always
\* followed by it; every request after it is a DescribeStacks or the timer of
\* the stack poll, never a DescribeChangeSet; and when the call then resolves
\* on a described stack, its value is that description in its terminal status.
C18_ExecuteOnceThenPollStack ==
  call.fn = "upsertStack" =>
    /\ Cardinality(Idx("ExecuteChangeSet")) <= 1
    /\ \A j \in Idx("ExecuteChangeSet") :
         /\ j > 1
         /\ log[j - 1].op = "DescribeChangeSet"
         /\ log[j - 1].ChangeSetName = log[j].ChangeSetName
         /\ \E i \in 1..(j - 1) :
              /\ log[i].op = "CreateChangeSet"
              /\ log[i].ChangeSetName = log[j].ChangeSetName
              /\ log[i].ChangeSetType \in { "CREATE", "UPDATE" }
         /\ \A i \in (j + 1)..Len(log) : log[i].op \in { "DescribeStacks", "setTimeout" }
         /\ j < Len(log) => log[j + 1].op = "DescribeStacks"
    /\ pc = "ExecuteChangeSet" =>
         /\ log[Len(log)].op = "ExecuteChangeSet"
         /\ lastCs.ok
         /\ lastCs.status \in { <<"CREATE", "COMPLETE">>, <<"UPDATE", "COMPLETE">>,
                                 <<"DELETE", "COMPLETE">> }
    /\ (/\ lastCs.ok
        /\ lastCs.status \in { <<"CREATE", "COMPLETE">>, <<"UPDATE", "COMPLETE">>,
                                <<"DELETE", "COMPLETE">> }
        /\ \E i \in Idx("CreateChangeSet") :
             /\ log[i].ChangeSetType \in { "CREATE", "UPDATE" }
             /\ \A k \in Idx("CreateChangeSet") : k <= i)
         => pc = "ExecuteChangeSet"
    /\ Idx("ExecuteChangeSet") # {} => result.kind # "changeset"
    /\ (Idx("ExecuteChangeSet") # {} /\ result.state = "resolved" /\ lastStack.ok) =>
         /\ lastStack.status \in { <<"CREATE", "COMPLETE">>, <<"UPDATE", "COMPLETE">> }
         /\ result = [state |-> "resolved", kind |-> "stack",
                       status |-> lastStack.status, msg |-> <<>>]

C18_Witness ==
  /\ call.fn = "upsertStack"
  /\ pc = "done"
  /\ Idx("ExecuteChangeSet") # {}
  /\ waits >= 1
  /\ log[Len(log)].op = "DescribeStacks"
  /\ result = StackData(<<"UPDATE", "COMPLETE">>)

----------------------------------------------------------------------------
\* C19: createStack first submits one CreateStack with DisableRollback = true;
\* it issues DescribeStacks only once that submission has succeeded; a
\* submission error rejects the call with that error and no DescribeStacks is
\* issued; when the poll sees CREATE_COMPLETE the call has resolved with the
\* stack description, when it sees CREATE_FAILED the call has rejected with
\* 'Stack operation failed'.
C19_CreateStackContract ==
  call.fn = "createStack" =>
    /\ pc # "start" =>
         /\ log[1].op = "CreateStack"
         /\ log[1].StackName = call.name
         /\ log[1].DisableRollback = "true"
         /\ Cardinality(Idx("CreateStack")) = 1
    /\ pc = "CreateStack" => Idx("DescribeStacks") = {}
    /\ Idx("DescribeStacks") # {} => submitErr = <<>>
    /\ submitErr # <<>> =>
         /\ pc = "done"
         /\ result = [state |-> "rejected", kind |-> "error", status |-> <<>>,
                       msg |-> submitErr]
         /\ Idx("DescribeStacks") = {}
    /\ (lastStack.ok /\ lastStack.status = <<"CREATE", "COMPLETE">>) =>
         /\ pc = "done"
         /\ result = [state |-> "resolved", kind |-> "stack",
                       status |-> <<"CREATE", "COMPLETE">>, msg |-> <<>>]
    /\ (lastStack.ok /\ lastStack.status = <<"CREATE", "FAILED">>) =>
         /\ pc = "done"
         /\ result = [state |-> "rejected", kind |-> "error", status |-> <<>>,
                       msg |-> <<"Stack operation failed">>]

C19_Witness ==
  /\ call.fn = "createStack"
  /\ pc = "done"
  /\ waits >= 1
  /\ lastStack = StackOk(<<"CREATE", "FAILED">>)
  /\ result = Rejected(<<"Stack operation failed">>)

----------------------------------------------------------------------------
\* C20: when upsertStack with review = true found the stack and the poll of
\* the preview change set it created ended in the empty outcome (FAILED with
\* one of the two 'no changes' reasons), the reviewer is not prompted, no
\* UpdateStack, no ExecuteChangeSet and no DeleteChangeSet is issued, every
\* later request belongs to the poll of the stack, and once that poll has
\* described the stack in a stable status (CREATE_COMPLETE, UPDATE_COMPLETE)
\* the call has resolved with that description.
C20_PreviewEmpty ==
  /\ call.fn = "upsertStack"
  /\ lastCs.ok /\ lastCs.status = <<"FAILED">>
  /\ \/ "No updates are to be performed" \in Range(lastCs.reason)
     \/ "didn't contain changes" \in Range(lastCs.reason)
  /\ \E i \in Idx("CreateChangeSet") :
       /\ log[i].ChangeSetName = <<"cf-utils-", call.name, "-preview">>
       /\ \A k \in Idx("CreateChangeSet") : k <= i
  /\ Idx("DeleteChangeSet") = {}

----------------------------------------------------------------------------
\* C21: once the reviewer has answered the prompt of upsertStack (approving or
\* declining), the next request deletes the preview change set and the one
\* after it, if the deletion was accepted, is a DescribeChangeSet of the
\* preview; an update (UpdateStack or the CreateChangeSet of the update) is
\* submitted, and 'Reviewer rejected stack update' is raised, only right
\* after a DescribeChangeSet of the preview that followed the deletion.
C21_Answered ==
  /\ call.fn = "upsertStack"
  /\ Idx("prompt") # {}
  /\ pc # "prompt"
  /\ result # [state |-> "rejected", kind |-> "error", status |-> <<>>,
                msg |-> <<"prompt failed">>]

C21_CleanupBeforeDecision ==
  C21_Answered =>
    LET k == CHOOSE k \in Idx("prompt") : TRUE
        preview == <<"cf-utils-", call.name, "-preview">>
    IN  /\ k < Len(log)
        /\ log[k + 1].op = "DeleteChangeSet"
        /\ log[k + 1].ChangeSetName = preview
        /\ log[k + 1].StackName = call.name
        /\ Cardinality(Idx("DeleteChangeSet")) = 1
        /\ k + 1 < Len(log) =>
             log[k + 2].op = "DescribeChangeSet" /\ log[k + 2].ChangeSetName = preview
        /\ \A i \in (k + 1)..Len(log) :
             log[i].op \in { "UpdateStack", "CreateChangeSet" } =>
               /\ performUpdate
               /\ i > k + 2
               /\ log[i - 1].op = "DescribeChangeSet"
               /\ log[i - 1].ChangeSetName = preview
        /\ result = [state |-> "rejected", kind |-> "error", status |-> <<>>,
                      msg |-> <<"Reviewer rejected stack update">>] =>
             /\ ~performUpdate
             /\ Len(log) > k + 1
             /\ log[Len(log)].op = "DescribeChangeSet"
             /\ log[Len(log)].ChangeSetName = preview
        /\ (~performUpdate /\ pc = "done" /\ lastCs # NoCs
              /\ (lastCs.ok \/ "does not exist" \in Range(lastCs.msg))) =>
             result.state = "rejected"

C21_Witness ==
  /\ C21_Answered
  /\ performUpdate
  /\ pc = "done"
  /\ Idx("UpdateStack") # {}
  /\ \E d \in Idx("DeleteChangeSet") : \A u \in Idx("UpdateStack") : d < u
  /\ result = StackData(<<"UPDATE", "COMPLETE">>)

----------------------------------------------------------------------------
\* C22: when the first DescribeStacks of upsertStack failed with an error
\* whose message does not say 'does not exist', the call has rejected with
\* that same error, and neither CreateStack nor CreateChangeSet has been
\* issued.
C22_UnexpectedDescribeErrorPropagates ==
  (/\ call.fn = "upsertStack"
   /\ ~first.ok /\ first.msg # <<>>
   /\ "does not exist" \notin Range(first.msg))
    => /\ pc = "done"
       /\ result = [state |-> "rejected", kind |-> "error", status |-> <<>>,
                     msg |-> first.msg]
       /\ Idx("CreateStack") = {}
       /\ Idx("CreateChangeSet") = {}

----------------------------------------------------------------------------
\* C23: when the script of upsertStack is a local path with no file behind
\* it, the call rejects at its first step and issues no request at all (no
\* upload to S3, no DescribeStacks, no other CloudFormation request),
\* whatever the options.
C23_MissingScriptFailsFast ==
  (call.fn = "upsertStack" /\ call.script.kind = "local" /\ ~call.script.exists) =>
    /\ log = <<>>
    /\ pc # "start" => (pc = "done" /\ result.state = "rejected")

----------------------------------------------------------------------------
\* C24: any two invocations of the change-set path, at the same moment or one
\* after the other, generate different change-set names.
C24_NamesUniquePerInvocation ==
  \A r1, r2 \in Runs :
    (r1 # r2 /\ generated[r1] # <<>> /\ generated[r2] # <<>>) =>
      generated[r1] # generated[r2]

----------------------------------------------------------------------------
\* C25: in a call of upsertStack with options.s3Bucket set, the upload is the
\* first request and the only upload; nothing else is issued while it is
\* awaited and nothing after it failed; the call then runs as an upsert on the
\* URL: every CreateStack, UpdateStack and CreateChangeSet carries TemplateURL,
\* the options of that upsert have no s3Bucket, review is true exactly when
\* the caller's review is true, and containsTransforms is fixed to ct.
C25_StagedUpsert(ct) ==
  (call.fn = "upsertStack" /\ call.options.form = "object"
     /\ call.options.s3Bucket = "set") =>
    /\ Cardinality(Idx("PutS3Object")) <= 1
    /\ log # <<>> => log[1].op = "PutS3Object" /\ log[1].Bucket = "s3Bucket"
    /\ pc = "PutS3Object" => Len(log) = 1
    /\ \A i \in 1..Len(log) :
         log[i].op \in { "CreateStack", "UpdateStack", "CreateChangeSet" } =>
           log[i].Template = "TemplateURL"
    /\ Len(log) > 1 =>
         /\ log[2].op = "DescribeStacks"
         /\ script.kind = "s3url"
         /\ options.s3Bucket = "absent"
         /\ options.review = (IF call.options.review = "true" THEN "true" ELSE "false")
         /\ options.containsTransforms # "absent"
         /\ containsTransforms = ct
         /\ (Idx("CreateChangeSet") # {} /\ call.options.review # "true") => ct
         /\ Idx("prompt") # {} => call.options.review = "true"

\* ... with ct the value derived from the local file
C25_TransformsFromLocalFile ==
  C25_StagedUpsert(call.script.body \in MarkedTemplates)

\* ... with ct the value the first activation determined: the override of
\* options.containsTransforms when there is one, else the value derived from
\* the local file
C25_TransformsAsDetermined ==
  C25_StagedUpsert(IF call.options.containsTransforms # "absent"
                     THEN call.options.containsTransforms = "true"
                     ELSE call.script.body \in MarkedTemplates)

C25_Witness ==
  /\ call.fn = "upsertStack"
  /\ call.options.s3Bucket = "set"
  /\ call.options.review = "true"
  /\ call.options.containsTransforms = "absent"
  /\ call.script.body \in MarkedTemplates
  /\ pc = "done"
  /\ Idx("prompt") # {}
  /\ Idx("ExecuteChangeSet") # {}
  /\ result = StackData(<<"UPDATE", "COMPLETE">>)

----------------------------------------------------------------------------
\* C26: when a poll rejects with 'Stack operation failed' or with 'Changeset
\* creation failed', the rejection carries what the last describe returned
\* (the stack's, respectively the change set's, status), not only a message.
C26_FailureCarriesPayload ==
  /\ (result.state = "rejected" /\ result.msg = <<"Stack operation failed">>) =>
       (lastStack.ok /\ result.status = lastStack.status)
  /\ (result.state = "rejected" /\ result.msg = <<"Changeset creation failed">>) =>
       (lastCs.ok /\ result.status = lastCs.status)

----------------------------------------------------------------------------
\* the emptyBucket requests of the call, in the order they were issued
C27_EmptyBucketCalls == SelectSeq(log, LAMBDA r : r.op = "emptyBucket")

\* C27: once deleteStack has read the described stack, its emptyBucket calls
\* are, in order and once each, the values of the outputs whose key ends with
\* Bucket; the values of BucketName (b0), databucket (b3) and Property1 (v1)
\* are never emptied, and a stack without outputs or with an empty list of
\* outputs causes no emptyBucket call.
C27_EmptiesExactlyBucketOutputs ==
  LET calls == C27_EmptyBucketCalls
      wanted == SelectSeq(outputs.list,
                          LAMBDA o : o.OutputKey[Len(o.OutputKey)] = "Bucket")
  IN  /\ (call.fn = "deleteStack" /\ pc \notin { "start", "deleteDescribe" }) =>
           /\ Len(calls) = Len(wanted)
           /\ \A i \in 1..Len(calls) : calls[i].Bucket = wanted[i].OutputValue
           /\ (~outputs.defined \/ outputs.list = <<>>) => calls = <<>>
      /\ \A i \in 1..Len(calls) : calls[i].Bucket \notin { "b0", "b3", "v1" }

C27_Witness ==
  /\ call.fn = "deleteStack"
  /\ outputs.defined
  /\ Len(outputs.list) = 3
  /\ outputs.list[1].OutputKey = <<"Bucket", "Name">>
  /\ Len(C27_EmptyBucketCalls) = 2
  /\ C27_EmptyBucketCalls[1].Bucket = "b1"
  /\ C27_EmptyBucketCalls[2].Bucket = "b2"
  /\ pc = "done"
  /\ result = Undefined

----------------------------------------------------------------------------
\* C30: when emptyBucket has resolved on a bucket whose versioning is
\* enabled, every version of every object of the bucket, on whichever
\* listing page its key is, was named in a DeleteObjects request, and the
\* bucket holds no object version.
C30_VersionedBucketEmptied ==
  (bucket.exists /\ bucket.Status = "Enabled" /\ ebResult.state = "resolved") =>
    /\ \A k \in 1..bucket.objects, v \in 1..bucket.versions : <<k, v>> \in submitted
    /\ remaining = {}

----------------------------------------------------------------------------
\* C28: once S3 answered with 'The specified bucket does not exist',
\* emptyBucket has resolved having sent its GetBucketVersioning and no listing
\* and no deletion; once S3 answered the versioning query, a listing or a
\* deletion with any other error, emptyBucket has rejected with that error.
C28_MissingBucketToleratedOthersReject ==
  /\ s3Err = <<"NoSuchBucket: ", "The specified bucket does not exist">> =>
       /\ ebResult = [state |-> "resolved", err |-> None]
       /\ requests["GetBucketVersioning"] = 1
       /\ requests["ListObjectsV2"] = 0
       /\ requests["ListObjectVersions"] = 0
       /\ requests["DeleteObjects"] = 0
  /\ s3Err = <<"AccessDenied: ", "Access Denied">> =>
       ebResult = [state |-> "rejected", err |-> <<"AccessDenied: ", "Access Denied">>]

----------------------------------------------------------------------------
C29_DescribeFailed ==
  call.fn = "deleteStack" /\ first = StackErr(<<"some other error">>)

\* C29: when the first DescribeStacks of deleteStack was answered with an
\* error that is not 'does not exist', deleteStack has rejected with that
\* error, and its DescribeStacks is the only request it issued: no
\* emptyBucket was started and no DeleteStack was sent.
C29_DescribeErrorRejectsWithoutEffects ==
  C29_DescribeFailed =>
    /\ pc = "done"
    /\ result = [state |-> "rejected", kind |-> "error", status |-> None,
                 msg |-> <<"some other error">>]
    /\ log = <<Req("DescribeStacks", call.name)>>
    /\ s3Operations = <<>>
    /\ Idx("emptyBucket") = {}
    /\ Idx("DeleteStack") = {}

C29_Witness == C29_DescribeFailed /\ pc = "done" /\ result.state = "rejected"

----------------------------------------------------------------------------
\* emptyBucket is running, or has run, on a bucket without versioning
C31_Unversioned == ebPc # "idle" /\ bucket.exists /\ bucket.Status # "Enabled"

\* the listing pages of the bucket emptyBucket was called on
C31_Pages ==
  IF bucket.objects = 0
    THEN 1
    ELSE (bucket.objects + MaxKeysPerPage - 1) \div MaxKeysPerPage

\* C31: on a bucket without versioning, a listing is awaited only when the
\* DeleteObjects of every listing before it was answered, and the listing
\* with a continuation token only when every key up to the token is gone
\* from the bucket; a DeleteObjects names the keys of the page just listed;
\* no more listings are sent than the bucket has pages; and when emptyBucket
\* has resolved, every page was listed, every key of the bucket was named in
\* a DeleteObjects and the bucket is empty.
C31_FollowsContinuationTokens ==
  C31_Unversioned =>
    /\ requests["ListObjectVersions"] = 0
    /\ requests["ListObjectsV2"] <= C31_Pages
    /\ ebPc = "ListObjectsV2" =>
         /\ requests["DeleteObjects"] = requests["ListObjectsV2"] - 1
         /\ token = MaxKeysPerPage * requests["DeleteObjects"]
         /\ \A k \in 1..token : <<k, 0>> \in submitted /\ <<k, 1>> \notin remaining
    /\ ebPc = "DeleteObjects" =>
         /\ requests["DeleteObjects"] = requests["ListObjectsV2"]
         /\ page.Contents # {}
         /\ \A k \in page.Contents : <<k, 0>> \in submitted
         /\ submitted = { <<k, 0>> : k \in 1..Max(page.Contents) }
    /\ ebResult.state = "resolved" =>
         /\ requests["ListObjectsV2"] = C31_Pages
         /\ submitted = { <<k, 0>> : k \in 1..bucket.objects }
         /\ remaining = {}

C31_Witness ==
  /\ C31_Unversioned
  /\ bucket.objects > MaxKeysPerPage
  /\ ebResult.state = "resolved"
  /\ requests["ListObjectsV2"] >= 2
  /\ requests["DeleteObjects"] >= 2

----------------------------------------------------------------------------
\* C32: when every S3 call completes, the promise emptyBucket returned is
\* eventually resolved or rejected, whatever the bucket holds and whichever
\* call fails.
C32_AlwaysSettles == <>(ebResult.state \in { "resolved", "rejected" })

----------------------------------------------------------------------------
\* C33: in deleteVersionedObjects every key has one listAndDelete, started
\* with the others; a listAndDelete that lists again does so with the
\* markers its last page returned and after the version of that page was
\* deleted; a listAndDelete that deletes names the version its listing
\* returned; no listing beyond the first of each key is sent without a
\* deletion answered before it; and when the call has resolved, the
\* listAndDelete of every key is fulfilled and no version of its key is left.
C33_SequentialPerKeyAllAwaited ==
  ebPc \in { "Promise.all", "done" } =>
    /\ \A k \in DOMAIN chains :
         /\ (chains[k].pc = "ListObjectVersions" /\ chains[k].nested) =>
              /\ chains[k].data.NextKeyMarker # 0
              /\ chains[k].data.NextVersionIdMarker # 0
              /\ chains[k].data.Versions =
                   { <<chains[k].data.NextKeyMarker, chains[k].data.NextVersionIdMarker>> }
              /\ chains[k].data.Versions \cap remaining = {}
         /\ (chains[k].pc = "ListObjectVersions" /\ ~chains[k].nested) =>
              chains[k].data.Versions = {}
         /\ chains[k].pc = "DeleteObjects" =>
              /\ chains[k].data.Versions # {}
              /\ chains[k].data.Versions \subseteq submitted
    /\ requests["ListObjectVersions"] <=
         Cardinality(DOMAIN chains) + requests["DeleteObjects"]
    /\ ebResult.state = "resolved" =>
         \A k \in DOMAIN chains :
           /\ chains[k].pc = "fulfilled"
           /\ \A v \in 1..bucket.versions : <<k, v>> \notin remaining

\* two keys in progress at once, one at its second page, one at its first
C33_Witness ==
  /\ ebPc = "Promise.all"
  /\ \E k1, k2 \in DOMAIN chains :
       /\ k1 # k2
       /\ chains[k1].pc = "ListObjectVersions" /\ chains[k1].nested
       /\ chains[k2].pc = "DeleteObjects" /\ ~chains[k2].nested

----------------------------------------------------------------------------
\* C34: every version deleteVersionedObjects names in a DeleteObjects is a
\* version of one of the keys it was called with.
C34_OnlySpecifiedKeys ==
  ebPc \in { "Promise.all", "done" } =>
    \A o \in submitted : o[1] \in DOMAIN chains

----------------------------------------------------------------------------
\* C35: when deleteChangeSet has resolved, the last DescribeChangeSet it
\* handled reported the status DELETE_COMPLETE or answered that the change
\* set does not exist.
C35_DeleteChangeSetResolvesWhenDeleted ==
  (call.fn = "deleteChangeSet" /\ result.state = "resolved") =>
    \/ lastCs.ok /\ lastCs.status = <<"DELETE", "COMPLETE">>
    \/ ~lastCs.ok /\ Contains(lastCs.msg, "does not exist")

----------------------------------------------------------------------------
\* upsertStack asked the reviewer, who approved
C36_Approved ==
  /\ call.fn = "upsertStack"
  /\ Idx("prompt") # {}
  /\ pc # "prompt"
  /\ performUpdate

\* the requests that submit or run an update, issued after position d
C36_UpdateSteps(d) ==
  { i \in (d + 1)..Len(log) :
      log[i].op \in { "CreateStack", "UpdateStack", "CreateChangeSet",
                      "ExecuteChangeSet", "DescribeStacks" } }

\* C36: after an approved review, the preview change set is never executed.
\* With transforms the first step after the preview's deletion is the
\* CreateChangeSet of a change set of type UPDATE with the generated name, no
\* UpdateStack is issued, and the one ExecuteChangeSet there may be names that
\* change set, follows the poll of it and is followed by the poll of the
\* stack.  Without transforms the first step is UpdateStack, and no change
\* set is created or executed.  A call that resolved with the stack issued
\* the ExecuteChangeSet, respectively the UpdateStack.
C36_ApprovedUpdateAfterPreview ==
  C36_Approved =>
    LET preview == <<"cf-utils-", call.name, "-preview">>
        auto == <<"cf-utils-cloudformation-upsert-stack-", "0">>
        d == CHOOSE d \in Idx("DeleteChangeSet") : TRUE
        steps == C36_UpdateSteps(d)
    IN  /\ Cardinality(Idx("DeleteChangeSet")) = 1
        /\ log[d].ChangeSetName = preview
        /\ \A j \in Idx("ExecuteChangeSet") : log[j].ChangeSetName # preview
        /\ Idx("CreateStack") = {}
        /\ containsTransforms =>
             /\ Idx("UpdateStack") = {}
             /\ steps # {} =>
                  /\ log[Min(steps)].op = "CreateChangeSet"
                  /\ log[Min(steps)].ChangeSetName = auto
                  /\ log[Min(steps)].ChangeSetType = "UPDATE"
                  /\ log[Min(steps) - 1].op = "DescribeChangeSet"
                  /\ log[Min(steps) - 1].ChangeSetName = preview
             /\ Cardinality({ i \in steps : log[i].op = "CreateChangeSet" }) <= 1
             /\ Cardinality(Idx("ExecuteChangeSet")) <= 1
             /\ \A j \in Idx("ExecuteChangeSet") :
                  /\ j > Min(steps)
                  /\ log[j].ChangeSetName = auto
                  /\ log[j - 1].op = "DescribeChangeSet"
                  /\ log[j - 1].ChangeSetName = auto
                  /\ j < Len(log) => log[j + 1].op = "DescribeStacks"
             /\ \A i \in steps : log[i].op = "DescribeStacks" =>
                  \E j \in Idx("ExecuteChangeSet") : j < i
             /\ result.kind = "stack" => Idx("ExecuteChangeSet") # {}
        /\ ~containsTransforms =>
             /\ Idx("ExecuteChangeSet") = {}
             /\ \A i \in steps : log[i].op # "CreateChangeSet"
             /\ steps # {} =>
                  /\ log[Min(steps)].op = "UpdateStack"
                  /\ log[Min(steps) - 1].op = "DescribeChangeSet"
                  /\ log[Min(steps) - 1].ChangeSetName = preview
             /\ Cardinality(Idx("UpdateStack")) <= 1
             /\ result.kind = "stack" => Idx("UpdateStack") # {}

C36_Witness ==
  /\ C36_Approved
  /\ containsTransforms
  /\ call.options.review = "true"
  /\ pc = "done"
  /\ Cardinality(Idx("CreateChangeSet")) = 2
  /\ Idx("ExecuteChangeSet") # {}
  /\ result = StackData(<<"UPDATE", "COMPLETE">>)

\* the versions of policy p that DeletePolicyVersion requests named so far
C38_DeleteRequests(p) ==
  { r.policyVersionId : r \in { q \in iotRequests :
                                  q.op = "DeletePolicyVersion" /\ q.policyName = p } }

\* C38: _removeOldPolicyVersions never deletes the default version of the
\* policy.  Once it has the answer to ListPolicyVersions, the DeletePolicyVersion
\* requests it sent name exactly the listed versions whose isDefaultVersion is
\* false, and none at all when the list holds a single version; before the
\* answer it has sent none.  The default version stays among the versions of
\* the policy.
C38_DeletesExactlyNonDefaultVersions ==
  \A k \in DOMAIN iotChains :
    LET p == ReplaceTemplate(k)
        listed == iotChains[k].listed
    IN  /\ policies[p].default \in policies[p].versions
        /\ \A v \in C38_DeleteRequests(p) :
             [versionId |-> v, isDefaultVersion |-> FALSE] \in listed
        /\ listed = {} => C38_DeleteRequests(p) = {}
        /\ listed # {} =>
             C38_DeleteRequests(p) =
               IF Cardinality(listed) > 1
                 THEN { v.versionId : v \in { w \in listed : w.isDefaultVersion = FALSE } }
                 ELSE {}

\* three versions were listed, the two that are not the default were deleted,
\* and the policy ends with its former default and the new version
C38_Witness ==
  \E k \in DOMAIN iotChains :
    /\ Cardinality(iotChains[k].listed) = 3
    /\ Cardinality(C38_DeleteRequests(ReplaceTemplate(k))) = 2
    /\ iotChains[k].pc = "done"
    /\ Cardinality(policies[ReplaceTemplate(k)].versions) = 2

\* C37: the promise of updateIoTPolicies resolves only after, for every output
\* key that contains 'IoTPolicyTemplate', the versions of the target policy
\* that were not the default have been deleted and then CreatePolicyVersion has
\* been answered (the new version being the default); its value holds one
\* CreatePolicyVersion result per such key; CreatePolicyVersion is never sent
\* for a policy that still has a version to delete; and a failed request
\* rejects the promise.
C37_ResolvesAfterEveryPolicyUpdated ==
  /\ iotResult.state = "resolved" =>
       /\ DOMAIN iotResult.value = { k \in stackOutput : IncludesIoTPolicyTemplate(k) }
       /\ \A k \in DOMAIN iotResult.value :
            /\ iotResult.value[k] = "CreatePolicyVersionCommandOutput"
            /\ iotChains[k].pc = "done"
            /\ policies[ReplaceTemplate(k)].versions =
                 { v.versionId : v \in { w \in iotChains[k].listed : w.isDefaultVersion } }
                   \cup { policies[ReplaceTemplate(k)].default }
            /\ policies[ReplaceTemplate(k)].default \notin
                 { v.versionId : v \in { w \in iotChains[k].listed : w.isDefaultVersion } }
  /\ \A k \in DOMAIN iotChains :
       iotChains[k].pc = "CreatePolicyVersion" =>
         policies[ReplaceTemplate(k)].versions = { policies[ReplaceTemplate(k)].default }
  /\ (\E k \in DOMAIN iotChains : iotChains[k].pc = "stopped") =>
       iotResult.state = "rejected" /\ iotResult.err = ErrIoT

\* C39: deleteLogGroups deletes every log group of every page of the listing.
\* A DeleteLogGroup request names only groups that matched the filter; a page
\* is listed with the nextToken of the page before it only after every
\* deletion of that page is complete, so every group up to the token is gone;
\* the promise resolves only when the page without nextToken has been listed
\* and all deletions are complete, so that no group is left; a failed listing
\* or deletion rejects it with that error, and once rejected no further
\* request is sent.
C39_DeletesEveryPageInOrder ==
  /\ [](/\ cwDeleted \subseteq 1..cwCount
        /\ cwPc = "DescribeLogGroups" =>
             /\ \A g \in DOMAIN cwPage : cwPage[g] = "deleted"
             /\ \A g \in logGroups : g > cwToken
             /\ cwDeleted = 1..cwToken
        /\ cwResult.state = "resolved" =>
             /\ logGroups = {}
             /\ cwDeleted = 1..cwCount
             /\ \A g \in DOMAIN cwPage : cwPage[g] = "deleted"
        /\ (\E g \in DOMAIN cwPage : cwPage[g] = "failed") =>
             cwResult = [state |-> "rejected",
                         err |-> <<"ServiceUnavailableException: ", "service unavailable">>]
        /\ cwResult.state = "rejected" => cwPc = "done")
  /\ [][cwResult.state = "rejected" => cwRequests' = cwRequests /\ cwResult' = cwResult]_vars

\* three groups were deleted over two pages and the promise is resolved
C39_Witness ==
  /\ cwResult.state = "resolved"
  /\ cwCount = 3
  /\ cwRequests["DescribeLogGroups"] >= 2
  /\ cwRequests["DeleteLogGroup"] = 3

=============================================================================
